---- MODULE Spec2Model ----
(***************************************************************************)
(* A model of the lnt-sovereign logic core: the manifest compiler          *)
(* (core/compiler.py), the interpreted evaluator KernelEngine              *)
(* (core/kernel.py), the vectorized evaluator OptimizedKernel              *)
(* (core/optimized_kernel.py), the formal verifier (core/formal.py) and    *)
(* the temporal state store (core/state.py).                               *)
(*                                                                         *)
(* Numbers.  Thresholds and proposal values are naturals.  The vectorized  *)
(* evaluator works on floats; float(v) is modelled as v * Scale, so that   *)
(* the 'missing' fill 0.1 and the REQUIRED lower bound 1e-9 are values of  *)
(* the grid that keep their order against every float(v).  Scores are      *)
(* kept in hundredths (66.67 is 6667).  A trailing average is the          *)
(* rational <<sum, count>>.                                                *)
(***************************************************************************)
EXTENDS Integers, Sequences, FiniteSets, TLC

VARIABLES
    manifest,     \* KernelEngine.manifest / the DomainManifest under work
    proposal,     \* the proposal (entity -> value dict) of the current request
    kernel,       \* OptimizedKernel instance: [manifest, state_vec]
    kres,         \* what KernelEngine.trace_evaluate returned for the request
    ores,         \* what OptimizedKernel.trace_evaluate returned for the request
    attached,     \* KernelEngine.state_buffer is set
    store,        \* LNTStateBuffer: entity -> sequence of [value, ts] entries
    now,          \* time.time()
    verifier,     \* FormalVerifier: [variables, consistent, satisfiable, ...]
    cres,         \* what LNTCompiler.compile (verify=True) returned or raised
    memo,         \* history: one earlier request of this kernel and its result
    calls         \* the trace_evaluate calls in flight on the OptimizedKernel

vars == <<manifest, proposal, kernel, kres, ores, attached, store, now, verifier, cres, memo,
          calls>>

-----------------------------------------------------------------------------
(* Bounds of the model *)

\* proposal values and pushed values are 0..MaxVal
MaxVal == 2
\* the clock runs from 0 to MaxTime seconds
MaxTime == 2
\* entries pushed from outside the evaluator, for one entity
MaxHist == 2
\* constraint weights are 1..MaxWeight
MaxWeight == 2
\* the largest threshold of the rules given to the Formal Verifier
MaxThreshold == 2
\* the random suffix of a key of the store is one of 0..MaxSuffix
MaxSuffix == 1

(* Program constants *)

\* a proposal value that is a str and no number, such as "abc": comparing it
\* with a number raises TypeError and float() of it raises ValueError.  It
\* is kept apart from the numbers 0..MaxVal by its code
Text == 0 - 1

\* float(v) = v * Scale: one unit of the grid is 0.1
Scale == 10
\* self._state_vec.fill(0.1)
MissingFill == 1
\* REQUIRED: low = 1e-9, the least positive value of the grid
RequiredLow == 1
\* np.inf, above every value of the grid
Inf == 1000000
\* np.zeros(len(self.indices))
ZeroFill == 0

\* manifest.entities of every manifest of the model, in declaration order
Entities == <<"a", "b">>
EntitySet == {Entities[i] : i \in 1..Len(Entities)}
\* the constraint ids of a manifest, by position; "X" is the id of no constraint
Ids == <<"A", "B", "C">>
NoId == "X"

-----------------------------------------------------------------------------
(* Helpers *)

Range(s) == {s[i] : i \in 1..Len(s)}

RECURSIVE SumSeq(_)
SumSeq(s) == IF s = <<>> THEN 0 ELSE s[1] + SumSeq(Tail(s))

Max(x, y) == IF x >= y THEN x ELSE y

\* the constraints of m, as indices
Idx(m) == 1..Len(m.constraints)

-----------------------------------------------------------------------------
(* Manifest Model: core/kernel.py *)

\* ConstraintOperator
Operators == {"GT", "LT", "GTE", "LTE", "EQ", "IN", "NIN", "RANGE", "REQUIRED"}

\* ManifestConstraint.  value is a sequence: <<t>> for a scalar threshold,
\* <<low, high>> for RANGE, the allowed values for IN and NIN, <<>> for
\* REQUIRED.  conditional_on is the set of the listed ids (None is {}).
\* temporal_window is <<>> (None) or <<n, suffix>> for the string n suffix.
Constraint(id, entity, op, value, sev, w, cond, win) ==
    [id |-> id, entity |-> entity, operator |-> op, value |-> value,
     severity |-> sev, weight |-> w, conditional_on |-> cond,
     temporal_window |-> win]

\* DomainManifest.validate_entities: every constraint entity is declared
ValidateEntities(m) ==
    \A i \in 1..Len(m.constraints) : m.constraints[i].entity \in Range(m.entities)

\* the index of the constraint that a dict keyed by id holds for id: the
\* last one with that id (0: none)
IdToIdx(cs, id) ==
    LET hits == {i \in 1..Len(cs) : cs[i].id = id}
    IN  IF hits = {} THEN 0 ELSE CHOOSE i \in hits : \A j \in hits : j <= i

-----------------------------------------------------------------------------
(* Manifest Compiler: core/compiler.py, the part after verification *)

\* float(x) on the grid
Float(x) == x * Scale

\* severity_map.get(constraint.severity, 0)
SeverityClass(sev) ==
    IF sev \in {"CRITICAL", "FATAL"} THEN 2
    ELSE IF sev = "WARNING" THEN 1
    ELSE 0

\* the (low, high) pair of one constraint
Bounds(c) ==
    IF c.operator = "GT" THEN <<Float(c.value[1]), Inf>>
    ELSE IF c.operator = "LT" THEN <<-Inf, Float(c.value[1])>>
    ELSE IF c.operator = "EQ" THEN <<Float(c.value[1]), Float(c.value[1])>>
    ELSE IF c.operator = "RANGE" THEN <<Float(c.value[1]), Float(c.value[2])>>
    ELSE IF c.operator = "REQUIRED" THEN <<RequiredLow, Inf>>
    ELSE <<-Inf, Inf>>

\* entity_map = {entity: i for i, entity in enumerate(entities)}, 1-based here
EntityMap(entities) ==
    [e \in Range(entities) |-> CHOOSE i \in 1..Len(entities) :
        entities[i] = e /\ \A j \in 1..Len(entities) : entities[j] = e => j <= i]

\* mutant: dep_matrix[i, dep_idx] = True, the matrix transposed
DependencyMatrixTransposed(cs) ==
    [i \in 1..Len(cs), j \in 1..Len(cs) |->
        \E dep \in cs[i].conditional_on : IdToIdx(cs, dep) = j]

\* dep_matrix[i, j]: constraint j depends on constraint i
DependencyMatrix(cs) ==
    [i \in 1..Len(cs), j \in 1..Len(cs) |->
        \E dep \in cs[j].conditional_on : IdToIdx(cs, dep) = i]

\* LNTCompiler.compile, lines 42-109
CompileArrays(m) ==
    LET cs == m.constraints
        emap == EntityMap(m.entities)
    IN  [entity_map |-> emap,
         bounds |-> [i \in 1..Len(cs) |-> Bounds(cs[i])],
         severities |-> [i \in 1..Len(cs) |-> SeverityClass(cs[i].severity)],
         dependency_matrix |-> DependencyMatrix(cs),
         metadata |-> [i \in 1..Len(cs) |->
             [id |-> cs[i].id, entity |-> cs[i].entity,
              entity_idx |-> emap[cs[i].entity],
              severity_label |-> cs[i].severity,
              weight |-> cs[i].weight]]]

-----------------------------------------------------------------------------
(* Results of trace_evaluate.  violations, passes and pruned are the ids  *)
(* in the order reported; score is in hundredths.                         *)

NoResult ==
    [status |-> "NONE", violations |-> <<>>, passes |-> <<>>, pruned |-> <<>>,
     score |-> 0, un_governed |-> {}]

\* mutant: the score cut to 2 decimals instead of rounded
ScoreTruncated(deducted, total) ==
    IF total > 0
    THEN LET num == 10000 * (total - deducted)
         IN  IF num <= 0 THEN 0 ELSE num \div total
    ELSE 10000

\* round(max(0.0, 100.0 * (1.0 - deducted / total)), 2) if total > 0 else 100.0
Score(deducted, total) ==
    IF total > 0
    THEN LET num == 10000 * (total - deducted)
         IN  IF num <= 0 THEN 0 ELSE (2 * num + total) \div (2 * total)
    ELSE 10000

\* the elements of 1..n that satisfy P, in increasing order
RECURSIVE Pick(_, _, _)
Pick(i, n, keep) ==
    IF i > n THEN <<>>
    ELSE IF keep[i] THEN <<i>> \o Pick(i + 1, n, keep)
    ELSE Pick(i + 1, n, keep)

-----------------------------------------------------------------------------
(* Vectorized evaluator: core/optimized_kernel.py *)

\* OptimizedKernel.__init__
NewKernel(compiled) ==
    [manifest |-> compiled,
     state_vec |-> [i \in 1..Cardinality(DOMAIN compiled.entity_map) |-> ZeroFill]]

\* mutant: no fill(0.1), an entity the proposal lacks keeps its last value
UpdateStateNoFill(k, p) ==
    [i \in DOMAIN k.state_vec |->
        LET keys == {e \in DOMAIN p : e \in DOMAIN k.manifest.entity_map
                                      /\ k.manifest.entity_map[e] = i}
        IN  IF keys = {} THEN k.state_vec[i]
            ELSE Float(p[CHOOSE e \in keys : TRUE])]

\* _update_state without the test "key in self.indices": a key that is no
\* entity of the manifest lands in the first slot
UpdateStateAnyKey(k, p) ==
    [i \in DOMAIN k.state_vec |->
        LET keys == {e \in DOMAIN p :
                        IF e \in DOMAIN k.manifest.entity_map
                        THEN k.manifest.entity_map[e] = i ELSE i = 1}
        IN  IF keys = {} THEN MissingFill
            ELSE Float(p[CHOOSE e \in keys : \A f \in keys : p[f] <= p[e]])]

\* OptimizedKernel._update_state: the new _state_vec
UpdateState(k, p) ==
    [i \in DOMAIN k.state_vec |->
        LET keys == {e \in DOMAIN p : e \in DOMAIN k.manifest.entity_map
                                      /\ k.manifest.entity_map[e] = i
                                      /\ p[e] # Text}
        IN  IF keys = {} THEN MissingFill
            ELSE Float(p[CHOOSE e \in keys : TRUE])]

\* OptimizedKernel._get_violation_mask
GetViolationMask(k, sv) ==
    [i \in DOMAIN k.manifest.bounds |->
        LET c_state == sv[k.manifest.metadata[i].entity_idx]
        IN  c_state < k.manifest.bounds[i][1] \/ c_state > k.manifest.bounds[i][2]]

\* mutant: the rows are not restricted to failed_indices, so one failure prunes
\* every rule that has a prerequisite
PrunedMaskAllRows(k, violation_mask) ==
    [j \in DOMAIN violation_mask |->
        /\ \E i \in DOMAIN violation_mask : violation_mask[i]
        /\ \E i \in DOMAIN violation_mask : k.manifest.dependency_matrix[i, j]]

\* OptimizedKernel._apply_dependency_pruning: pruned_mask
PrunedMask(k, violation_mask) ==
    [j \in DOMAIN violation_mask |->
        \E i \in DOMAIN violation_mask :
            violation_mask[i] /\ k.manifest.dependency_matrix[i, j]]

\* mutant: the violation mask is kept as it is for the pruned rules
EffectiveMaskUnpruned(violation_mask, pruned_mask) ==
    [i \in DOMAIN violation_mask |-> violation_mask[i]]

\* OptimizedKernel._apply_dependency_pruning: effective_mask
EffectiveMask(violation_mask, pruned_mask) ==
    [i \in DOMAIN violation_mask |-> violation_mask[i] /\ ~pruned_mask[i]]

\* the status of OptimizedKernel.trace_evaluate, lines 61-74
OptStatus(violations, has_critical) ==
    IF has_critical THEN "REJECTED_CRITICAL"
    ELSE IF violations = <<>> THEN "CERTIFIED"
    ELSE "REJECTED"

\* OptimizedKernel.trace_evaluate: the returned dict, given the state vector
\* that _update_state left
OptResult(k, sv) ==
    LET n == Len(k.manifest.metadata)
        meta == k.manifest.metadata
        violation_mask == GetViolationMask(k, sv)
        pruned_mask == PrunedMask(k, violation_mask)
        effective_mask == EffectiveMask(violation_mask, pruned_mask)
        total_weight ==
            SumSeq([i \in 1..n |-> IF pruned_mask[i] THEN 0 ELSE meta[i].weight])
        deducted_weight ==
            SumSeq([i \in 1..n |-> IF effective_mask[i] THEN meta[i].weight ELSE 0])
        has_critical ==
            \E i \in 1..n : effective_mask[i] /\ k.manifest.severities[i] = 2
        ids(keep) == LET sel == Pick(1, n, keep)
                     IN  [x \in 1..Len(sel) |-> meta[sel[x]].id]
        violations == ids(effective_mask)
    IN  [status |-> OptStatus(violations, has_critical),
         violations |-> violations,
         passes |-> ids([i \in 1..n |-> ~effective_mask[i] /\ ~pruned_mask[i]]),
         pruned |-> ids(pruned_mask),
         score |-> Score(deducted_weight, total_weight),
         un_governed |-> {}]

-----------------------------------------------------------------------------
(* Temporal State Store: core/state.py *)

\* The evaluators read the store through calculate_average only, which does
\* not depend on the order of the entries: for them the store is kept as the
\* entries of each entity, taken to have distinct keys.  The keys themselves
\* are modelled further down (Lmdb...).

\* LNTStateBuffer.push at time t
Push(st, entity, value, t) ==
    [st EXCEPT ![entity] = Append(@, [value |-> value, ts |-> t])]

\* LNTStateBuffer.get_window_data at time t
GetWindowData(st, entity, window_seconds, t) ==
    LET h == st[entity]
        keep == [i \in 1..Len(h) |-> h[i].ts >= t - window_seconds]
        sel == Pick(1, Len(h), keep)
    IN  [x \in 1..Len(sel) |-> h[sel[x]].value]

\* LNTStateBuffer.calculate_average: the mean as <<sum, count>>, 0.0 as <<0, 1>>
CalculateAverage(st, entity, window_seconds, t) ==
    LET data == GetWindowData(st, entity, window_seconds, t)
    IN  IF data = <<>> THEN <<0, 1>> ELSE <<SumSeq(data), Len(data)>>

\* LNTStateBuffer.calculate_frequency
CalculateFrequency(st, entity, window_seconds, t) ==
    Len(GetWindowData(st, entity, window_seconds, t))

\* LNTStateBuffer.parse_window for the string n suffix (whole seconds only)
ParseWindow(win) ==
    IF win[2] = "s" THEN win[1]
    ELSE IF win[2] = "m" THEN win[1] * 60
    ELSE IF win[2] = "h" THEN win[1] * 3600
    ELSE IF win[2] = "d" THEN win[1] * 86400
    ELSE 0

-----------------------------------------------------------------------------
(* The store at the level of its LMDB keys.  A key is the byte string      *)
(* "entity:timestamp:suffix"; LMDB keeps the keys in byte order and a      *)
(* cursor walks them in that order.  A key is modelled as the sequence of  *)
(* the ranks of its characters: a digit is its value, ':' ranks above the  *)
(* digits and the entity letters above ':'.  The clock is read in          *)
(* hundredths of a second after a whole second that all readings share, so *)
(* str(timestamp) differs in its decimals only: one digit for a multiple   *)
(* of 0.1 (repr drops the trailing zero), two digits otherwise.            *)

\* the rank of ':' among the characters of a key
Colon == 10

\* the rank of the letter of an entity
EntityChar(e) == Colon + EntityMap(Entities)[e]

\* the decimals of str(timestamp) for the reading n
TsDigits(n) == IF n % 10 = 0 THEN <<n \div 10>> ELSE <<n \div 10, n % 10>>

\* f"{entity}:" and f"{entity}:{timestamp}:{suffix}"
KeyPrefix(entity) == <<EntityChar(entity), Colon>>
Key(entity, n, suffix) == KeyPrefix(entity) \o TsDigits(n) \o <<Colon, suffix>>

\* byte order of two keys
BytesLess(k1, k2) ==
    \/ \E i \in 1..Len(k1) :
          /\ i <= Len(k2)
          /\ k1[i] < k2[i]
          /\ \A j \in 1..(i - 1) : k1[j] = k2[j]
    \/ Len(k1) < Len(k2) /\ \A j \in 1..Len(k1) : k1[j] = k2[j]

\* key.startswith(prefix)
StartsWith(k, prefix) ==
    Len(k) >= Len(prefix) /\ \A j \in 1..Len(prefix) : k[j] = prefix[j]

\* float(key.decode().split(":")[1]): the reading written in the key
KeyTimestamp(k) ==
    LET colons == {i \in 1..Len(k) : k[i] = Colon}
        first  == CHOOSE i \in colons : \A j \in colons : i <= j
        second == CHOOSE i \in colons \ {first} : \A j \in colons \ {first} : i <= j
    IN  IF second - first = 2 THEN 10 * k[first + 1]
        ELSE 10 * k[first + 1] + k[first + 2]

\* an empty database; the version key of _warmup, which starts with no
\* prefix of an entity, is left out
EmptyDb == [k \in {} |-> 0]

\* LNTStateBuffer.push at reading t, os.urandom giving suffix: txn.put
\* replaces the value of a key that is there already
LmdbPush(db, entity, value, t, suffix) ==
    LET key == Key(entity, t, suffix)
    IN  [k \in DOMAIN db \cup {key} |-> IF k = key THEN value ELSE db[k]]

\* the loop "for key, val in cursor" over the keys not yet visited: the
\* least key first, break at the first key without the prefix
RECURSIVE CursorWalk(_, _, _, _)
CursorWalk(db, keys, prefix, cutoff) ==
    IF keys = {} THEN <<>>
    ELSE LET key == CHOOSE k \in keys : \A o \in keys \ {k} : BytesLess(k, o)
         IN  IF ~StartsWith(key, prefix) THEN <<>>
             ELSE (IF KeyTimestamp(key) >= cutoff THEN <<db[key]>> ELSE <<>>)
                  \o CursorWalk(db, keys \ {key}, prefix, cutoff)

\* LNTStateBuffer.get_window_data at reading t: cursor.set_range(prefix)
\* starts the walk at the least key that is not below the prefix
LmdbGetWindowData(db, entity, window, t) ==
    LET prefix == KeyPrefix(entity)
    IN  CursorWalk(db, {k \in DOMAIN db : ~BytesLess(k, prefix)}, prefix, t - window)

\* calculate_average that divides by the number of all entries of the
\* entity, in or out of the window
LmdbAverageOverAll(db, entity, window, t) ==
    LET data == LmdbGetWindowData(db, entity, window, t)
        all  == {k \in DOMAIN db : StartsWith(k, KeyPrefix(entity))}
    IN  IF data = <<>> THEN <<0, 1>> ELSE <<SumSeq(data), Cardinality(all)>>

\* LNTStateBuffer.calculate_average: the mean as <<sum, count>>, 0.0 as <<0, 1>>
LmdbCalculateAverage(db, entity, window, t) ==
    LET data == LmdbGetWindowData(db, entity, window, t)
    IN  IF data = <<>> THEN <<0, 1>> ELSE <<SumSeq(data), Len(data)>>

\* LNTStateBuffer.calculate_frequency
LmdbCalculateFrequency(db, entity, window, t) ==
    Len(LmdbGetWindowData(db, entity, window, t))

-----------------------------------------------------------------------------
(* Interpreted evaluator: core/kernel.py *)

\* step 4 of KernelEngine.trace_evaluate: is_violation for the resolved
\* value actual = <<num, den>>; a trailing average is never Text, the store
\* holding numbers only
IsViolation(c, actual) ==
    LET num == actual[1]
        den == actual[2]
    IN  IF num = Text
        THEN \* TypeError for the comparisons, False for == and in
             c.operator \in {"GT", "LT", "GTE", "LTE", "RANGE", "EQ", "IN"}
        ELSE IF c.operator = "GT" THEN ~(num > c.value[1] * den)
        ELSE IF c.operator = "LT" THEN ~(num < c.value[1] * den)
        ELSE IF c.operator = "GTE" THEN ~(num >= c.value[1] * den)
        ELSE IF c.operator = "LTE" THEN ~(num <= c.value[1] * den)
        ELSE IF c.operator = "EQ" THEN ~(num = c.value[1] * den)
        ELSE IF c.operator = "IN" THEN ~(\E x \in Range(c.value) : num = x * den)
        ELSE IF c.operator = "RANGE"
            THEN ~(c.value[1] * den <= num /\ num <= c.value[2] * den)
        ELSE FALSE

\* mutant: results_map.get(pid, True), an id without a result counts as passed
PrerequisitesPassedByDefault(c, results_map) ==
    \A pid \in c.conditional_on : pid \in DOMAIN results_map => results_map[pid]

\* step 0: the dependency gate lets the constraint through
PrerequisitesPassed(c, results_map) ==
    \A pid \in c.conditional_on : pid \in DOMAIN results_map /\ results_map[pid]

\* mutant: the trailing average is read before the current value is pushed
KernelStepAverageFirst(c, p, att, t, acc) ==
    IF c.conditional_on # {} /\ ~PrerequisitesPassed(c, acc.results_map)
    THEN acc
    ELSE
      LET present == c.entity \in DOMAIN p
          st1 == IF att /\ present /\ p[c.entity] # Text
                 THEN Push(acc.store, c.entity, p[c.entity], t)
                 ELSE acc.store
          temporal == c.temporal_window # <<>> /\ att
          missing == ~temporal /\ ~present
          actual == IF temporal
                    THEN CalculateAverage(acc.store, c.entity, ParseWindow(c.temporal_window), t)
                    ELSE <<p[c.entity], 1>>
          setres(v) == [x \in DOMAIN acc.results_map \cup {c.id} |->
                           IF x = c.id THEN v ELSE acc.results_map[x]]
      IN  IF missing \/ IsViolation(c, actual)
          THEN [acc EXCEPT !.violations = Append(@, c.id),
                           !.deducted_weight = @ + c.weight,
                           !.results_map = setres(FALSE),
                           !.store = st1]
          ELSE [acc EXCEPT !.passes = Append(@, c.id),
                           !.results_map = setres(TRUE),
                           !.store = st1]

\* mutant: a missing value is a violation for REQUIRED only
KernelStepMissingRequiredOnly(c, p, att, t, acc) ==
    IF c.conditional_on # {} /\ ~PrerequisitesPassed(c, acc.results_map)
    THEN acc
    ELSE
      LET present == c.entity \in DOMAIN p
          st1 == IF att /\ present /\ p[c.entity] # Text
                 THEN Push(acc.store, c.entity, p[c.entity], t)
                 ELSE acc.store
          temporal == c.temporal_window # <<>> /\ att
          missing == ~temporal /\ ~present
          actual == IF temporal
                    THEN CalculateAverage(st1, c.entity, ParseWindow(c.temporal_window), t)
                    ELSE <<p[c.entity], 1>>
          setres(v) == [x \in DOMAIN acc.results_map \cup {c.id} |->
                           IF x = c.id THEN v ELSE acc.results_map[x]]
      IN  IF (missing /\ c.operator = "REQUIRED") \/ (~missing /\ IsViolation(c, actual))
          THEN [acc EXCEPT !.violations = Append(@, c.id),
                           !.deducted_weight = @ + c.weight,
                           !.results_map = setres(FALSE),
                           !.store = st1]
          ELSE [acc EXCEPT !.passes = Append(@, c.id),
                           !.results_map = setres(TRUE),
                           !.store = st1]

\* one iteration of the loop of KernelEngine.trace_evaluate over constraint c;
\* acc carries violations, passes, results_map, deducted_weight and the store
KernelStep(c, p, att, t, acc) ==
    IF c.conditional_on # {} /\ ~PrerequisitesPassed(c, acc.results_map)
    THEN acc
    ELSE
      LET present == c.entity \in DOMAIN p
          st1 == IF att /\ present /\ p[c.entity] # Text
                 THEN Push(acc.store, c.entity, p[c.entity], t)
                 ELSE acc.store
          temporal == c.temporal_window # <<>> /\ att
          missing == ~temporal /\ ~present
          actual == IF temporal
                    THEN CalculateAverage(st1, c.entity, ParseWindow(c.temporal_window), t)
                    ELSE <<p[c.entity], 1>>
          setres(v) == [x \in DOMAIN acc.results_map \cup {c.id} |->
                           IF x = c.id THEN v ELSE acc.results_map[x]]
      IN  IF missing \/ IsViolation(c, actual)
          THEN [acc EXCEPT !.violations = Append(@, c.id),
                           !.deducted_weight = @ + c.weight,
                           !.results_map = setres(FALSE),
                           !.store = st1]
          ELSE [acc EXCEPT !.passes = Append(@, c.id),
                           !.results_map = setres(TRUE),
                           !.store = st1]

RECURSIVE KernelLoop(_, _, _, _, _, _)
KernelLoop(cs, i, p, att, t, acc) ==
    IF i > Len(cs) THEN acc
    ELSE KernelLoop(cs, i + 1, p, att, t, KernelStep(cs[i], p, att, t, acc))

\* KernelEngine.trace_evaluate with a manifest loaded: [res, store]
KernelTrace(m, p, att, st, t) ==
    LET total_weight == SumSeq([i \in 1..Len(m.constraints) |-> m.constraints[i].weight])
        acc0 == [violations |-> <<>>, passes |-> <<>>, results_map |-> <<>>,
                 deducted_weight |-> 0, store |-> st]
        acc == KernelLoop(m.constraints, 1, p, att, t, acc0)
    IN  [res |-> [status |-> IF acc.violations = <<>> THEN "CERTIFIED" ELSE "REJECTED",
                  violations |-> acc.violations,
                  passes |-> acc.passes,
                  pruned |-> <<>>,
                  score |-> Score(acc.deducted_weight, total_weight),
                  un_governed |-> DOMAIN p \ Range(m.entities)],
         store |-> acc.store]


-----------------------------------------------------------------------------
(* The inputs of the model *)

Severities == {"CRITICAL", "FATAL", "WARNING", "TOXIC"}
Weights == 1..MaxWeight

\* operator and threshold of a constraint
OpValues ==
    ({"GT", "LT", "GTE", "LTE", "EQ"} \X {<<0>>, <<1>>})
    \cup {<<"IN", <<1>>>>, <<"NIN", <<1>>>>, <<"REQUIRED", <<>>>>,
          <<"RANGE", <<0, 1>>>>, <<"RANGE", <<1, 2>>>>, <<"RANGE", <<2, 1>>>>}

\* the conditional_on lists: none, one id (of a constraint or of none), two ids
CondSets == {{}, {Ids[1]}, {Ids[2]}, {Ids[1], Ids[2]}, {NoId}}

Manifest(cs) ==
    [domain_id |-> "D", entities |-> Entities, constraints |-> cs]

\* manifests of one constraint: every operator, severity and weight
OpManifests ==
    {Manifest(<<Constraint(Ids[1], e, ov[1], ov[2], sev, w, {}, <<>>)>>) :
        e \in EntitySet, ov \in OpValues, sev \in Severities, w \in Weights}

\* the constraints of the dependency manifests: GT 1 on one of the entities es
DagRule(id, es, ws) ==
    {Constraint(id, e, "GT", <<1>>, "WARNING", w, cond, <<>>) :
        e \in es, w \in ws, cond \in CondSets}

\* manifests of up to Len(Ids) constraints with conditional_on: the first
\* reads entity 1, the second entity 2, the third either
DagManifests ==
    LET ruleA == DagRule(Ids[1], {Entities[1]}, Weights)
        ruleB == DagRule(Ids[2], {Entities[2]}, Weights)
        ruleC == DagRule(Ids[3], EntitySet, {1})
    IN  {Manifest(<<>>)}
        \cup {Manifest(<<a>>) : a \in ruleA}
        \cup {Manifest(<<a, b>>) : a \in ruleA, b \in ruleB}
        \cup {Manifest(<<a, b, c>>) : a \in ruleA, b \in ruleB, c \in ruleC}

Manifests == OpManifests \cup DagManifests

\* a proposal is a dict from some of the entities to values
Proposals ==
    UNION {[S -> 0..MaxVal] : S \in SUBSET EntitySet}

EmptyStore == [e \in EntitySet |-> <<>>]

\* FormalVerifier(), with what its calls returned; called is the set of
\* the methods called so far
NewVerifier ==
    [variables |-> [e \in {} |-> "real"], called |-> {},
     consistent |-> FALSE, explanation |-> "None",
     satisfiable |-> FALSE, example |-> {},
     dead_raised |-> FALSE, dead_rules |-> <<>>,
     consistency_check |-> "none"]

\* no compile() yet
NoCompile == [outcome |-> "NONE", compiled |-> {}, consistency_check |-> "none"]

\* the threads that call the OptimizedKernel
Threads == {1, 2}

\* no call in flight: every thread is outside trace_evaluate
NoCalls ==
    [t \in Threads |-> [pc |-> "idle", proposal |-> <<>>, todo |-> {}, res |-> NoResult]]

\* no request remembered yet
NoMemo == [seen |-> FALSE, proposal |-> <<>>, res |-> NoResult, other |-> FALSE]

-----------------------------------------------------------------------------
(* Spec: one request served by both evaluators.  The engines are built as  *)
(* in tests/core: KernelEngine with the manifest loaded and no state       *)
(* buffer, OptimizedKernel(LNTCompiler(verify=False).compile(manifest)).   *)

Init ==
    /\ manifest \in Manifests
    /\ proposal \in Proposals
    /\ kernel = NewKernel(CompileArrays(manifest))
    /\ kres = NoResult
    /\ ores = NoResult
    /\ attached = FALSE
    /\ store = EmptyStore
    /\ now = 0
    /\ verifier = NewVerifier
    /\ cres = NoCompile
    /\ memo = NoMemo
    /\ calls = NoCalls

\* KernelEngine.trace_evaluate(proposal)
KernelTraceEvaluate ==
    LET r == KernelTrace(manifest, proposal, attached, store, now)
    IN  /\ kres' = r.res
        /\ store' = r.store
        /\ UNCHANGED <<calls, manifest, proposal, kernel, ores, attached, now, verifier, cres, memo>>

\* OptimizedKernel.trace_evaluate(proposal)
OptTraceEvaluate ==
    LET sv == UpdateState(kernel, proposal)
    IN  /\ kernel' = [kernel EXCEPT !.state_vec = sv]
        /\ ores' = OptResult(kernel, sv)
        /\ UNCHANGED <<calls, manifest, proposal, kres, attached, store, now, verifier, cres, memo>>

Next == KernelTraceEvaluate \/ OptTraceEvaluate

Spec == Init /\ [][Next]_vars


-----------------------------------------------------------------------------
(* SpecUngoverned: as Spec, for manifests that declare the first entity    *)
(* only, so that the other key of a proposal is no entity of the manifest  *)
(* (tests/test_upgrades.py, test_kernel_flexibility).                      *)

UngovernedManifests ==
    LET one == {<<Constraint(Ids[1], Entities[1], ov[1], ov[2], sev, 1, {}, <<>>)>> :
                    ov \in OpValues, sev \in {"WARNING", "CRITICAL"}}
        two == {<<a, b>> : a \in DagRule(Ids[1], {Entities[1]}, {1}),
                           b \in DagRule(Ids[2], {Entities[1]}, Weights)}
    IN  {[domain_id |-> "D", entities |-> <<Entities[1]>>, constraints |-> cs] :
            cs \in {<<>>} \cup one \cup two}

InitUngoverned ==
    /\ manifest \in UngovernedManifests
    /\ proposal \in Proposals
    /\ kernel = NewKernel(CompileArrays(manifest))
    /\ kres = NoResult
    /\ ores = NoResult
    /\ attached = FALSE
    /\ store = EmptyStore
    /\ now = 0
    /\ verifier = NewVerifier
    /\ cres = NoCompile
    /\ memo = NoMemo
    /\ calls = NoCalls

SpecUngoverned == InitUngoverned /\ [][Next]_vars

-----------------------------------------------------------------------------
(* SpecReuse: one OptimizedKernel instance serves a sequence of requests.  *)
(* memo remembers one of them with its result, and whether a later request *)
(* carried an entity that the remembered proposal lacks.                   *)

ReuseManifests ==
    {m \in Manifests :
        /\ Len(m.constraints) <= 2
        /\ \A i \in 1..Len(m.constraints) :
            m.constraints[i].severity = "WARNING" /\ m.constraints[i].weight = 1}

\* the proposals of the requests: each entity absent, 0 or MaxVal
ReuseProposals ==
    {p \in Proposals : \A e \in DOMAIN p : p[e] \in {0, MaxVal}}

InitReuse ==
    /\ manifest \in ReuseManifests
    /\ proposal = <<>>
    /\ kernel = NewKernel(CompileArrays(manifest))
    /\ kres = NoResult
    /\ ores = NoResult
    /\ attached = FALSE
    /\ store = EmptyStore
    /\ now = 0
    /\ verifier = NewVerifier
    /\ cres = NoCompile
    /\ memo = NoMemo
    /\ calls = NoCalls

\* a request with proposal p: OptimizedKernel.trace_evaluate(p)
Request(p, remember) ==
    LET sv == UpdateState(kernel, p)
        res == OptResult(kernel, sv)
    IN  /\ proposal' = p
        /\ kernel' = [kernel EXCEPT !.state_vec = sv]
        /\ ores' = res
        /\ memo' = IF remember
                   THEN [seen |-> TRUE, proposal |-> p, res |-> res, other |-> FALSE]
                   ELSE [memo EXCEPT !.other =
                            @ \/ (memo.seen /\ DOMAIN p \ DOMAIN memo.proposal # {})]
        /\ UNCHANGED <<calls, manifest, kres, attached, store, now, verifier, cres>>

NextReuse == \E p \in ReuseProposals, remember \in BOOLEAN : Request(p, remember)

SpecReuse == InitReuse /\ [][NextReuse]_vars

-----------------------------------------------------------------------------
(* SpecConcurrent: the threads call trace_evaluate on one OptimizedKernel  *)
(* instance, each with a proposal of its own.  A call is a sequence of     *)
(* steps on the instance's _state_vec: fill(0.1), one write for each key   *)
(* of the proposal, then the read of the state behind the violation mask,  *)
(* from which the call's result follows.  The interpreter may switch       *)
(* threads between any two steps.                                          *)

\* one rule on the first entity, or two rules with a dependency
ConcurrentManifests ==
    {m \in ReuseManifests :
        /\ m.constraints # <<>>
        /\ \A i \in 1..Len(m.constraints) :
              /\ m.constraints[i].operator \in {"GT", "LT"}
              /\ m.constraints[i].conditional_on \in {{}, {Ids[1]}}}

InitConcurrent ==
    /\ manifest \in ConcurrentManifests
    /\ proposal = <<>>
    /\ kernel = NewKernel(CompileArrays(manifest))
    /\ kres = NoResult
    /\ ores = NoResult
    /\ attached = FALSE
    /\ store = EmptyStore
    /\ now = 0
    /\ verifier = NewVerifier
    /\ cres = NoCompile
    /\ memo = NoMemo
    /\ calls = NoCalls

\* thread t enters trace_evaluate(p)
CallStart(t, p) ==
    /\ calls[t].pc = "idle"
    /\ calls' = [calls EXCEPT ![t] = [pc |-> "fill", proposal |-> p, todo |-> DOMAIN p,
                                       res |-> NoResult]]
    /\ UNCHANGED <<manifest, proposal, kernel, kres, ores, attached, store, now, verifier, cres, memo>>

\* _update_state: self._state_vec.fill(0.1)
CallFill(t) ==
    /\ calls[t].pc = "fill"
    /\ kernel' = [kernel EXCEPT !.state_vec = [i \in DOMAIN kernel.state_vec |-> MissingFill]]
    /\ calls' = [calls EXCEPT ![t].pc = "write"]
    /\ UNCHANGED <<manifest, proposal, kres, ores, attached, store, now, verifier, cres, memo>>

\* _update_state: self._state_vec[self.indices[key]] = float(val) for the
\* next key of the proposal, in the order of the entities
CallWrite(t) ==
    /\ calls[t].pc = "write"
    /\ calls[t].todo # {}
    /\ LET key == CHOOSE e \in calls[t].todo :
                     \A f \in calls[t].todo :
                        EntityMap(Entities)[e] <= EntityMap(Entities)[f]
           emap == kernel.manifest.entity_map
       IN  /\ kernel' = IF key \in DOMAIN emap
                        THEN [kernel EXCEPT !.state_vec[emap[key]] = Float(calls[t].proposal[key])]
                        ELSE kernel
           /\ calls' = [calls EXCEPT ![t].todo = @ \ {key}]
    /\ UNCHANGED <<manifest, proposal, kres, ores, attached, store, now, verifier, cres, memo>>

\* _get_violation_mask reads self._state_vec; pruning, score and the lists
\* follow from the mask
CallMask(t) ==
    /\ calls[t].pc = "write"
    /\ calls[t].todo = {}
    /\ calls' = [calls EXCEPT ![t].pc = "done",
                               ![t].res = OptResult(kernel, kernel.state_vec)]
    /\ UNCHANGED <<manifest, proposal, kernel, kres, ores, attached, store, now, verifier, cres, memo>>

NextConcurrent ==
    \E t \in Threads :
        \/ \E p \in ReuseProposals : CallStart(t, p)
        \/ CallFill(t)
        \/ CallWrite(t)
        \/ CallMask(t)

SpecConcurrent == InitConcurrent /\ [][NextConcurrent]_vars

-----------------------------------------------------------------------------
(* SpecTemporal: a KernelEngine with a state buffer attached, as built by  *)
(* TopologyOrchestrator.  Values are pushed into the buffer from outside   *)
(* (as tests/test_temporal_logic.py does), the clock advances, and         *)
(* requests are evaluated.                                                 *)

\* temporal_window strings: "1s", "1h"
Windows == {<<1, "s">>, <<1, "h">>}

TemporalRule(id, es, ops, conds) ==
    {Constraint(id, e, op, <<1>>, "WARNING", 1, cond, win) :
        e \in es, op \in ops, cond \in conds, win \in Windows \cup {<<>>}}

\* one or two constraints, the first on entity 1, with and without a window
TemporalManifests ==
    LET ruleA == TemporalRule(Ids[1], {Entities[1]}, {"GT", "LT"}, {{}})
        ruleB == TemporalRule(Ids[2], EntitySet, {"GT"}, {{}, {Ids[1]}})
    IN  {Manifest(<<a>>) : a \in ruleA}
        \cup {Manifest(<<a, b>>) : a \in ruleA, b \in ruleB}

InitTemporal ==
    /\ manifest \in TemporalManifests
    /\ proposal = <<>>
    /\ kernel = NewKernel(CompileArrays(manifest))
    /\ kres = NoResult
    /\ ores = NoResult
    /\ attached = TRUE
    /\ store = EmptyStore
    /\ now = 0
    /\ verifier = NewVerifier
    /\ cres = NoCompile
    /\ memo = NoMemo
    /\ calls = NoCalls

\* state_buffer.push(entity, value) by another caller
PushEntry(e, v) ==
    /\ Len(store[e]) < MaxHist
    /\ store' = Push(store, e, v, now)
    /\ UNCHANGED <<calls, manifest, proposal, kernel, kres, ores, attached, now, verifier, cres, memo>>

\* a second passes
Tick ==
    /\ now < MaxTime
    /\ now' = now + 1
    /\ UNCHANGED <<calls, manifest, proposal, kernel, kres, ores, attached, store, verifier, cres, memo>>

\* the request of the behaviour, with proposal p:
\* KernelEngine.trace_evaluate(p).  Earlier requests are present through the
\* entries they pushed.
KernelRequest(p) ==
    LET r == KernelTrace(manifest, p, attached, store, now)
    IN  /\ kres = NoResult
        /\ proposal' = p
        /\ kres' = r.res
        /\ store' = r.store
        /\ UNCHANGED <<calls, manifest, kernel, ores, attached, now, verifier, cres, memo>>

NextTemporal ==
    \/ \E v \in {0, MaxVal} : PushEntry(Entities[1], v)
    \/ Tick
    \/ \E p \in ReuseProposals : KernelRequest(p)

SpecTemporal == InitTemporal /\ [][NextTemporal]_vars

-----------------------------------------------------------------------------
(* SpecTyped: a KernelEngine built with or without a state buffer, and     *)
(* requests whose proposals may carry a value that is no number.  Values   *)
(* are pushed into the buffer from outside as in SpecTemporal.             *)

\* the operators that compare by order
OrderOpValues ==
    {<<"GT", <<1>>>>, <<"LT", <<1>>>>, <<"GTE", <<1>>>>, <<"LTE", <<1>>>>,
     <<"RANGE", <<0, 1>>>>}

\* one constraint of any operator on entity 1, with or without a window,
\* alone or followed by a constraint on either entity that may depend on
\* it; entity 2 is declared or not when no constraint reads it
TypedManifests ==
    LET ruleA == {Constraint(Ids[1], Entities[1], ov[1], ov[2], "WARNING", 1, {}, win) :
                    ov \in OrderOpValues \cup {<<"EQ", <<1>>>>, <<"IN", <<1>>>>,
                                               <<"REQUIRED", <<>>>>},
                    win \in {<<>>, <<1, "s">>}}
        ruleB == TemporalRule(Ids[2], EntitySet, {"GT"}, {{}, {Ids[1]}})
        both  == {Manifest(<<a>>) : a \in ruleA}
                 \cup {Manifest(<<a, b>>) : a \in ruleA, b \in ruleB}
    IN  both \cup {[m EXCEPT !.entities = <<Entities[1]>>] :
                      m \in {x \in both : \A i \in 1..Len(x.constraints) :
                                            x.constraints[i].entity = Entities[1]}}

\* each entity absent, a number, or a str that is no number
TypedProposals ==
    UNION {[S -> {0, MaxVal, Text}] : S \in SUBSET EntitySet}

InitTyped ==
    /\ manifest \in TypedManifests
    /\ proposal = <<>>
    /\ kernel = NewKernel(CompileArrays(manifest))
    /\ kres = NoResult
    /\ ores = NoResult
    /\ attached \in BOOLEAN
    /\ store = EmptyStore
    /\ now = 0
    /\ verifier = NewVerifier
    /\ cres = NoCompile
    /\ memo = NoMemo
    /\ calls = NoCalls

\* state_buffer.push(entity, value) by another caller of the attached buffer
TypedPushEntry(e, v) ==
    /\ attached
    /\ kres = NoResult
    /\ PushEntry(e, v)

NextTyped ==
    \/ \E v \in {0, MaxVal} : TypedPushEntry(Entities[1], v)
    \/ \E p \in TypedProposals : KernelRequest(p)

SpecTyped == InitTyped /\ [][NextTyped]_vars

-----------------------------------------------------------------------------
(* SpecStore: one LNTStateBuffer on one path, used through its own         *)
(* interface.  store is the LMDB database, attached tells whether the      *)
(* environment is open, now is the reading of time.time(), kres the last   *)
(* answer of the buffer, memo the values pushed so far in the order of the *)
(* calls, the database that the puts alone build, and whether the path was *)
(* opened a second time.                                                   *)

\* the readings of the clock: x.1, x.11 and x.2 seconds
ClockReadings == {10, 11, 20}

\* the two hexadecimal digits os.urandom may give to a key
Suffixes == 0..MaxSuffix

\* window_seconds of the queries: a hundredth of a second, and a second
StoreWindows == {1, 100}

NoPushes == [log |-> <<>>, db |-> EmptyDb, reopened |-> FALSE]

InitStore ==
    /\ manifest = Manifest(<<>>)
    /\ proposal = <<>>
    /\ kernel = NewKernel(CompileArrays(manifest))
    /\ kres = NoResult
    /\ ores = NoResult
    /\ attached = TRUE
    /\ store = EmptyDb
    /\ now = 10
    /\ verifier = NewVerifier
    /\ cres = NoCompile
    /\ memo = NoPushes
    /\ calls = NoCalls

\* buffer.push(e, v)
StorePush(e, v, suffix) ==
    /\ attached
    /\ Len(memo.log) < MaxHist
    /\ store' = LmdbPush(store, e, v, now, suffix)
    /\ memo' = [log |-> Append(memo.log, [entity |-> e, value |-> v, ts |-> now]),
                db  |-> LmdbPush(memo.db, e, v, now, suffix),
                reopened |-> memo.reopened]
    /\ UNCHANGED <<calls, manifest, proposal, kernel, kres, ores, attached, now, verifier, cres>>

\* time passes to a later reading
ClockTick ==
    /\ \E t \in ClockReadings : t > now /\ now' = t
    /\ UNCHANGED <<calls, manifest, proposal, kernel, kres, ores, attached, store, verifier, cres, memo>>

\* buffer.get_window_data(e, w)
StoreGetWindowData(e, w) ==
    /\ attached
    /\ kres' = [status |-> "get_window_data", entity |-> e, window |-> w, at |-> now,
                pushed |-> Len(memo.log), reopened |-> memo.reopened,
                result |-> LmdbGetWindowData(store, e, w, now)]
    /\ UNCHANGED <<calls, manifest, proposal, kernel, ores, attached, store, now, verifier, cres, memo>>

\* buffer.calculate_average(e, w)
StoreCalculateAverage(e, w) ==
    /\ attached
    /\ kres' = [status |-> "calculate_average", entity |-> e, window |-> w, at |-> now,
                pushed |-> Len(memo.log), reopened |-> memo.reopened,
                result |-> LmdbCalculateAverage(store, e, w, now)]
    /\ UNCHANGED <<calls, manifest, proposal, kernel, ores, attached, store, now, verifier, cres, memo>>

\* buffer.calculate_frequency(e, w)
StoreCalculateFrequency(e, w) ==
    /\ attached
    /\ kres' = [status |-> "calculate_frequency", entity |-> e, window |-> w, at |-> now,
                pushed |-> Len(memo.log), reopened |-> memo.reopened,
                result |-> LmdbCalculateFrequency(store, e, w, now)]
    /\ UNCHANGED <<calls, manifest, proposal, kernel, ores, attached, store, now, verifier, cres, memo>>

\* buffer.close(): the environment is closed, the file stays
StoreClose ==
    /\ attached
    /\ attached' = FALSE
    /\ UNCHANGED <<calls, manifest, proposal, kernel, kres, ores, store, now, verifier, cres, memo>>

\* LNTStateBuffer(path) on the same path: the environment is opened on the
\* file as it is
StoreOpen ==
    /\ ~attached
    /\ attached' = TRUE
    /\ memo' = [memo EXCEPT !.reopened = TRUE]
    /\ UNCHANGED <<calls, manifest, proposal, kernel, kres, ores, store, now, verifier, cres>>

NextStore ==
    \/ \E e \in EntitySet, v \in 1..MaxVal, suffix \in Suffixes : StorePush(e, v, suffix)
    \/ ClockTick
    \/ \E e \in EntitySet, w \in StoreWindows : StoreGetWindowData(e, w)
    \/ \E e \in EntitySet, w \in StoreWindows : StoreCalculateAverage(e, w)
    \/ \E e \in EntitySet, w \in StoreWindows : StoreCalculateFrequency(e, w)
    \/ StoreClose
    \/ StoreOpen

SpecStore == InitStore /\ [][NextStore]_vars

-----------------------------------------------------------------------------
(* SpecKeyed: a KernelEngine with an LNTStateBuffer attached, the store    *)
(* being the LMDB database of SpecStore.  The manifests have no            *)
(* temporal_window, so that a request reads nothing from the store and its *)
(* result and its calls of push are those of KernelTrace; each call of     *)
(* push then writes its key as LmdbPush does, with the clock reading and   *)
(* the suffix it draws.                                                    *)

KeyedManifests ==
    {m \in TypedManifests :
        \A i \in 1..Len(m.constraints) : m.constraints[i].temporal_window = <<>>}

KeyedProposals ==
    {p \in TypedProposals : \A e \in DOMAIN p : p[e] \in {MaxVal, Text}}

\* the calls of push that trace_evaluate(p) makes for entity e, in order
PushCalls(m, p, e) == KernelTrace(m, p, TRUE, EmptyStore, 0).store[e]

\* the database after the calls of push numbered from j, the j-th with the
\* suffix sfx[j] at the reading ts[j]
RECURSIVE LmdbPushAll(_, _, _, _, _, _)
LmdbPushAll(db, e, pushes, j, sfx, ts) ==
    IF j > Len(pushes) THEN db
    ELSE LmdbPushAll(LmdbPush(db, e, pushes[j].value, ts[j], sfx[j]),
                     e, pushes, j + 1, sfx, ts)

\* the later of the readings of the clock, the last one staying
NextReading(t) ==
    IF \E r \in ClockReadings : r > t
    THEN CHOOSE r \in ClockReadings : r > t /\ \A o \in ClockReadings : o > t => r <= o
    ELSE t

InitKeyed ==
    /\ manifest \in KeyedManifests
    /\ proposal = <<>>
    /\ kernel = NewKernel(CompileArrays(manifest))
    /\ kres = NoResult
    /\ ores = NoResult
    /\ attached = TRUE
    /\ store = EmptyDb
    /\ now = 10
    /\ verifier = NewVerifier
    /\ cres = NoCompile
    /\ memo = NoPushes
    /\ calls = NoCalls

\* the request of the behaviour, KernelEngine.trace_evaluate(p): sfx[e][j]
\* is the suffix of the j-th push for entity e; the clock either stays on
\* its reading during the call or moves on after the first push of each
\* entity (advance)
KeyedRequest(p, sfx, advance) ==
    LET ts == [j \in Idx(manifest) |-> IF advance /\ j > 1 THEN NextReading(now) ELSE now]
        db1 == LmdbPushAll(store, Entities[1], PushCalls(manifest, p, Entities[1]), 1,
                           sfx[Entities[1]], ts)
        db2 == LmdbPushAll(db1, Entities[2], PushCalls(manifest, p, Entities[2]), 1,
                           sfx[Entities[2]], ts)
    IN  /\ kres = NoResult
        /\ proposal' = p
        /\ kres' = KernelTrace(manifest, p, TRUE, EmptyStore, 0).res
        /\ store' = db2
        /\ now' = IF advance THEN NextReading(now) ELSE now
        /\ UNCHANGED <<calls, manifest, kernel, ores, attached, verifier, cres, memo>>

NextKeyed ==
    \/ \E p \in KeyedProposals, sfx \in [EntitySet -> [Idx(manifest) -> Suffixes]],
          advance \in BOOLEAN : KeyedRequest(p, sfx, advance)
    \/ ClockTick

SpecKeyed == InitKeyed /\ [][NextKeyed]_vars

-----------------------------------------------------------------------------
(* Formal Verifier: core/formal.py.  A Z3 variable is the entity's name    *)
(* with its sort; a Z3 formula is kept as the term the code builds.  The   *)
(* reals are read in half units, so that the grid below has a point on     *)
(* every threshold, between any two of them, below and above all of them:  *)
(* a conjunction of implications between bound atoms with thresholds in    *)
(* 0..MaxThreshold has a real solution exactly when it has one on the grid.*)

Grid == (0 - 1)..(2 * MaxThreshold + 1)

\* the values of a Z3 sort on the grid: Bool is 0 and 1, Int the integers
SortValues(sort) ==
    CASE sort = "bool" -> {0, 2}
      [] sort = "int"  -> {g \in Grid : g % 2 = 0}
      [] OTHER         -> Grid

\* self.variables = {} and an empty id_to_z3
NoVariables == [e \in {} |-> "real"]
NoFormulas == [id \in {} |-> <<>>]

\* FormalVerifier._create_variable: the first sort asked for is kept
CreateVariable(variables, entity, var_type) ==
    IF entity \in DOMAIN variables THEN variables
    ELSE [e \in DOMAIN variables \cup {entity} |->
            IF e = entity THEN var_type ELSE variables[e]]

\* the operators of the numeric branch of _constraint_to_z3
NumericOperators == {"GT", "LT", "EQ", "GTE", "LTE", "RANGE"}

\* FormalVerifier._constraint_to_z3: the formula, the variables afterwards
\* and whether it raised.  The thresholds of the model are numbers, so the
\* bool and str branches of EQ are not taken.
ConstraintToZ3(variables, c) ==
    CASE c.operator = "REQUIRED" ->
            [raised |-> FALSE, variables |-> CreateVariable(variables, c.entity, "bool"),
             z3 |-> [entity |-> c.entity, operator |-> "VAR", value |-> <<>>]]
      [] c.operator = "IN" ->
            [raised |-> FALSE, variables |-> CreateVariable(variables, c.entity, "int"),
             z3 |-> [entity |-> c.entity, operator |-> "OR", value |-> c.value]]
      [] OTHER ->
            [raised |-> c.operator \notin NumericOperators,
             variables |-> CreateVariable(variables, c.entity, "real"),
             z3 |-> [entity |-> c.entity, operator |-> c.operator, value |-> c.value]]

\* the truth of a formula under an assignment of grid values to the variables
EvalZ3(f, asg) ==
    LET x == asg[f.entity]
    IN  CASE f.operator = "VAR"   -> x = 2
          [] f.operator = "OR"    -> \E i \in 1..Len(f.value) : x = 2 * f.value[i]
          [] f.operator = "GT"    -> x > 2 * f.value[1]
          [] f.operator = "LT"    -> x < 2 * f.value[1]
          [] f.operator = "EQ"    -> x = 2 * f.value[1]
          [] f.operator = "GTE"   -> x >= 2 * f.value[1]
          [] f.operator = "LTE"   -> x <= 2 * f.value[1]
          [] f.operator = "RANGE" -> x >= 2 * f.value[1] /\ x <= 2 * f.value[2]
          [] OTHER                -> FALSE

\* an assertion of the solver: And(pre) => concl; pre is empty for a formula
\* asserted as it is
Assertion(pre, concl) == [pre |-> pre, concl |-> concl]

\* the models of the asserted formulas over the variables
Models(variables, asserted) ==
    {asg \in [DOMAIN variables -> Grid] :
        /\ \A e \in DOMAIN variables : asg[e] \in SortValues(variables[e])
        /\ \A a \in asserted :
             (\A f \in a.pre : EvalZ3(f, asg)) => EvalZ3(a.concl, asg)}

\* Solver.check(): the fragment is decidable and small, the solver answers
SolverCheck(variables, asserted) ==
    IF Models(variables, asserted) # {} THEN "sat" ELSE "unsat"

\* the loop "for c in constraints: id_to_z3[c['id']] = _constraint_to_z3(c)"
\* from constraint i on; it stops at the first constraint that raises
RECURSIVE BuildZ3Map(_, _, _)
BuildZ3Map(cs, i, acc) ==
    IF i > Len(cs) THEN acc
    ELSE LET r == ConstraintToZ3(acc.variables, cs[i])
         IN  IF r.raised
             THEN [acc EXCEPT !.raised = i, !.variables = r.variables]
             ELSE BuildZ3Map(cs, i + 1,
                    [acc EXCEPT !.variables = r.variables,
                                !.id_to_z3 = [id \in DOMAIN acc.id_to_z3 \cup {cs[i].id} |->
                                                IF id = cs[i].id THEN r.z3
                                                ELSE acc.id_to_z3[id]]])

\* the formulas of the prerequisites of c that resolve in id_to_z3
Prereqs(c, id_to_z3) ==
    {id_to_z3[pid] : pid \in c.conditional_on \cap DOMAIN id_to_z3}

\* the second pass of verify_consistency: what is asserted for constraint c
ConsistencyAssertion(c, id_to_z3) ==
    Assertion(Prereqs(c, id_to_z3), id_to_z3[c.id])

\* verify_consistency up to check(): the variables, what is asserted, and
\* the index of the constraint that failed to parse (0: none)
ConsistencyQuery(m) ==
    LET cs  == m.constraints
        map == BuildZ3Map(cs, 1, [variables |-> NoVariables, id_to_z3 |-> NoFormulas, raised |-> 0])
    IN  [raised |-> map.raised, variables |-> map.variables,
         asserted |-> IF map.raised # 0 THEN {}
                      ELSE {ConsistencyAssertion(cs[i], map.id_to_z3) : i \in 1..Len(cs)}]

\* the answers Solver.check() can give to a query: the decided one, or
\* unknown when the timeout of the solver expires first
SolverAnswers(variables, asserted) ==
    {SolverCheck(variables, asserted), "unknown"}

\* verify_consistency from check() on, result being the answer of check():
\* (bool, explanation), the variables left in the verifier and the answer
\* ("none" when check() was not reached)
ConsistencyVerdict(q, result) ==
    IF q.raised # 0
    THEN [consistent |-> FALSE, explanation |-> "Failed to parse constraint",
          variables |-> q.variables, consistency_check |-> "none"]
    ELSE IF result = "sat"
    THEN [consistent |-> TRUE, explanation |-> "None",
          variables |-> q.variables, consistency_check |-> result]
    ELSE IF result = "unsat"
    THEN [consistent |-> FALSE,
          explanation |-> "Manifest contains contradictory constraints",
          variables |-> q.variables, consistency_check |-> result]
    ELSE [consistent |-> FALSE,
          explanation |-> "Could not determine satisfiability (timeout or unknown)",
          variables |-> q.variables, consistency_check |-> result]

\* FormalVerifier.verify_consistency(manifest) when the solver decides
VerifyConsistency(m) ==
    LET q == ConsistencyQuery(m)
    IN  ConsistencyVerdict(q, SolverCheck(q.variables, q.asserted))

\* the loop of verify_satisfiable: each constraint is asserted as it is, one
\* that raises is skipped (the variable it created stays)
RECURSIVE AssertAll(_, _, _)
AssertAll(cs, i, acc) ==
    IF i > Len(cs) THEN acc
    ELSE LET r == ConstraintToZ3(acc.variables, cs[i])
         IN  AssertAll(cs, i + 1,
                [variables |-> r.variables,
                 asserted  |-> IF r.raised THEN acc.asserted
                               ELSE acc.asserted \cup {Assertion({}, r.z3)}])

\* the state of the solver when verify_satisfiable calls check()
SatisfiableQuery(m) ==
    AssertAll(m.constraints, 1, [variables |-> NoVariables, asserted |-> {}])

\* what detect_dead_code asserts for constraint c before check(): the rule
\* alone
DeadRuleAlone(c, id_to_z3) ==
    {Assertion({}, id_to_z3[c.id])}

\* what detect_dead_code asserts for constraint c before check(): And of the
\* prerequisites that resolve in id_to_z3, and the rule
DeadRuleQuery(c, id_to_z3) ==
    {Assertion({}, f) : f \in Prereqs(c, id_to_z3) \cup {id_to_z3[c.id]}}

\* FormalVerifier.detect_dead_code(manifest), called with the variables the
\* verifier holds (they are not reset): the ids whose query is unsat, in
\* manifest order; raised when _constraint_to_z3 raises
DetectDeadCode(variables, m) ==
    LET cs  == m.constraints
        map == BuildZ3Map(cs, 1, [variables |-> variables, id_to_z3 |-> NoFormulas, raised |-> 0])
        dead == [i \in 1..Len(cs) |->
                    SolverCheck(map.variables, DeadRuleQuery(cs[i], map.id_to_z3)) = "unsat"]
        idx == Pick(1, Len(cs), dead)
    IN  IF map.raised # 0
        THEN [raised |-> TRUE, dead_rules |-> <<>>, variables |-> map.variables]
        ELSE [raised |-> FALSE, dead_rules |-> [k \in 1..Len(idx) |-> cs[idx[k]].id],
              variables |-> map.variables]

\* LNTCompiler.compile from "if not is_consistent" on, r being what
\* verify_consistency returned: ManifestContradictionError when verification
\* is on and r is not consistent, else the CompiledManifest (compiled holds
\* it, and is empty after a raise)
CompileAfter(verify, m, r) ==
    IF verify /\ ~r.consistent
    THEN [outcome |-> "ManifestContradictionError", compiled |-> {},
          consistency_check |-> r.consistency_check]
    ELSE [outcome |-> "CompiledManifest", compiled |-> {CompileArrays(m)},
          consistency_check |-> IF verify THEN r.consistency_check ELSE "none"]

\* compile without the verification step
CompileUnverified(verify, m) ==
    CompileAfter(FALSE, m, VerifyConsistency(m))

\* compile that builds the dependency matrix in the buffer of the previous
\* call on the compiler when the sizes agree
CompileOverPrevious(verify, m) ==
    LET r == CompileAfter(verify, m, VerifyConsistency(m))
        n == Len(m.constraints)
        stale(x) == {p \in cres.compiled : Len(p.bounds) = n}
        merged(x) == [x EXCEPT !.dependency_matrix =
                        [ij \in DOMAIN x.dependency_matrix |->
                            x.dependency_matrix[ij]
                            \/ \E p \in stale(x) : p.dependency_matrix[ij]]]
    IN  [r EXCEPT !.compiled = {merged(x) : x \in r.compiled}]

\* LNTCompiler(verify).compile(manifest) when the solver decides
Compile(verify, m) ==
    CompileAfter(verify, m, VerifyConsistency(m))

-----------------------------------------------------------------------------
(* SpecFormal: one manifest given to a FormalVerifier, whose three checks  *)
(* are called in any order, each once (cli.py verify calls them on one     *)
(* verifier), and to LNTCompiler(verify=True).compile, which has a         *)
(* verifier of its own.                                                    *)

\* operator and threshold of the rules given to the verifier
FormalOpValues ==
    ({"GT", "LT", "EQ"} \X {<<t>> : t \in 1..MaxThreshold})
    \cup {<<"GTE", <<1>>>>, <<"LTE", <<1>>>>, <<"IN", <<1>>>>, <<"NIN", <<1>>>>,
          <<"RANGE", <<1, MaxThreshold>>>>, <<"RANGE", <<MaxThreshold, 1>>>>}

StrictOpValues == {"GT", "LT"} \X {<<t>> : t \in 1..MaxThreshold}

FormalRule(id, es, ovs, conds) ==
    {Constraint(id, e, ov[1], ov[2], "WARNING", 1, cond, <<>>) :
        e \in es, ov \in ovs, cond \in conds}

\* manifests of up to Len(Ids) rules; conditional_on may name the rule
\* itself, a later rule, or no rule
FormalManifests ==
    LET ruleA  == FormalRule(Ids[1], {Entities[1]}, FormalOpValues, {{}, {Ids[1]}, {Ids[2]}})
        ruleB  == FormalRule(Ids[2], {Entities[1]}, FormalOpValues, CondSets)
        otherB == FormalRule(Ids[2], {Entities[2]}, StrictOpValues, {{}, {Ids[1]}})
        headA  == FormalRule(Ids[1], {Entities[1]}, {"GT"} \X {<<t>> : t \in 1..MaxThreshold}, {{}})
        midB   == FormalRule(Ids[2], {Entities[1]}, StrictOpValues, {{}, {Ids[1]}})
        lastC  == FormalRule(Ids[3], {Entities[1]}, StrictOpValues, CondSets)
    IN  {Manifest(<<>>)}
        \cup {Manifest(<<a>>) : a \in ruleA}
        \cup {Manifest(<<a, b>>) : a \in ruleA, b \in ruleB \cup otherB}
        \cup {Manifest(<<a, b, c>>) : a \in headA, b \in midB, c \in lastC}

InitFormal ==
    /\ manifest \in FormalManifests
    /\ proposal = <<>>
    /\ kernel = NewKernel(CompileArrays(manifest))
    /\ kres = NoResult
    /\ ores = NoResult
    /\ attached = FALSE
    /\ store = EmptyStore
    /\ now = 0
    /\ verifier = NewVerifier
    /\ cres = NoCompile
    /\ memo = NoMemo
    /\ calls = NoCalls

\* verifier.verify_consistency(manifest)
CallVerifyConsistency ==
    LET r == VerifyConsistency(manifest)
    IN  /\ "verify_consistency" \notin verifier.called
        /\ verifier' = [verifier EXCEPT
                !.called = @ \cup {"verify_consistency"},
                !.variables = r.variables,
                !.consistent = r.consistent,
                !.explanation = r.explanation,
                !.consistency_check = r.consistency_check]
        /\ UNCHANGED <<calls, manifest, proposal, kernel, kres, ores, attached, store, now, cres, memo>>

\* verifier.verify_satisfiable(manifest): on sat the example is a model the
\* solver chose
CallVerifySatisfiable ==
    LET q == SatisfiableQuery(manifest)
        models == Models(q.variables, q.asserted)
    IN  /\ "verify_satisfiable" \notin verifier.called
        /\ \/ /\ SolverCheck(q.variables, q.asserted) = "sat"
              /\ \E example \in models :
                    verifier' = [verifier EXCEPT
                        !.called = @ \cup {"verify_satisfiable"},
                        !.variables = q.variables,
                        !.satisfiable = TRUE,
                        !.example = {example}]
           \/ /\ SolverCheck(q.variables, q.asserted) # "sat"
              /\ verifier' = [verifier EXCEPT
                        !.called = @ \cup {"verify_satisfiable"},
                        !.variables = q.variables,
                        !.satisfiable = FALSE,
                        !.example = {}]
        /\ UNCHANGED <<calls, manifest, proposal, kernel, kres, ores, attached, store, now, cres, memo>>

\* verifier.detect_dead_code(manifest)
CallDetectDeadCode ==
    LET r == DetectDeadCode(verifier.variables, manifest)
    IN  /\ "detect_dead_code" \notin verifier.called
        /\ verifier' = [verifier EXCEPT
                !.called = @ \cup {"detect_dead_code"},
                !.variables = r.variables,
                !.dead_raised = r.raised,
                !.dead_rules = r.dead_rules]
        /\ UNCHANGED <<calls, manifest, proposal, kernel, kres, ores, attached, store, now, cres, memo>>

\* LNTCompiler(verify=True).compile(manifest)
CallCompile ==
    /\ cres = NoCompile
    /\ cres' = Compile(TRUE, manifest)
    /\ UNCHANGED <<calls, manifest, proposal, kernel, kres, ores, attached, store, now, verifier, memo>>

NextFormal ==
    \/ CallVerifyConsistency
    \/ CallVerifySatisfiable
    \/ CallDetectDeadCode
    \/ CallCompile

SpecFormal == InitFormal /\ [][NextFormal]_vars

-----------------------------------------------------------------------------
(* SpecInconclusive: as SpecFormal for verify_consistency and compile, but *)
(* the solver works under its timeout (FormalVerifier(timeout_ms)), so     *)
(* check() may answer unknown instead of deciding.                         *)

\* verifier.verify_consistency(manifest), check() answering result
TimedVerifyConsistency ==
    LET q == ConsistencyQuery(manifest)
    IN  /\ "verify_consistency" \notin verifier.called
        /\ \E result \in SolverAnswers(q.variables, q.asserted) :
              LET r == ConsistencyVerdict(q, result)
              IN  verifier' = [verifier EXCEPT
                      !.called = @ \cup {"verify_consistency"},
                      !.variables = r.variables,
                      !.consistent = r.consistent,
                      !.explanation = r.explanation,
                      !.consistency_check = r.consistency_check]
        /\ UNCHANGED <<calls, manifest, proposal, kernel, kres, ores, attached, store, now, cres, memo>>

\* LNTCompiler(verify=True).compile(manifest), check() answering result
TimedCompile ==
    LET q == ConsistencyQuery(manifest)
    IN  /\ cres = NoCompile
        /\ \E result \in SolverAnswers(q.variables, q.asserted) :
              cres' = CompileAfter(TRUE, manifest, ConsistencyVerdict(q, result))
        /\ UNCHANGED <<calls, manifest, proposal, kernel, kres, ores, attached, store, now, verifier, memo>>

NextInconclusive ==
    \/ TimedVerifyConsistency
    \/ TimedCompile

SpecInconclusive == InitFormal /\ [][NextInconclusive]_vars

-----------------------------------------------------------------------------
(* SpecCompile: one LNTCompiler(verify=False) compiles manifest after      *)
(* manifest.  manifest and cres are the last manifest compiled and what    *)
(* compile returned for it; memo remembers the first call, whether another *)
(* manifest was compiled since (other) and whether the last call compiled  *)
(* the first manifest again (again).                                       *)

\* the manifests compiled: one rule of any operator and severity, or two
\* rules with conditional_on; the entities declared in either order
CompileManifests ==
    LET ovs == {ov \in OpValues : ov[2] \in {<<>>, <<1>>, <<1, 2>>}}
        one == {<<Constraint(Ids[1], Entities[1], ov[1], ov[2], sev, 1, {}, <<>>)>> :
                    ov \in ovs, sev \in Severities}
        two == {<<a, b>> : a \in {r \in DagRule(Ids[1], {Entities[1]}, {1}) :
                                    r.conditional_on \in {{}, {Ids[2]}}},
                           b \in DagRule(Ids[2], {Entities[2]}, {1})}
    IN  {[domain_id |-> "D", entities |-> es, constraints |-> cs] :
            es \in {Entities, <<Entities[2], Entities[1]>>}, cs \in one \cup two}

\* no compile() remembered yet
NoFirstCompile ==
    [seen |-> FALSE, manifest |-> Manifest(<<>>), cres |-> NoCompile,
     other |-> FALSE, again |-> FALSE]

InitCompile ==
    /\ manifest = Manifest(<<>>)
    /\ proposal = <<>>
    /\ kernel = NewKernel(CompileArrays(manifest))
    /\ kres = NoResult
    /\ ores = NoResult
    /\ attached = FALSE
    /\ store = EmptyStore
    /\ now = 0
    /\ verifier = NewVerifier
    /\ cres = NoCompile
    /\ memo = NoFirstCompile
    /\ calls = NoCalls

\* compiler.compile(m)
CompileNext(m) ==
    /\ manifest' = m
    /\ cres' = Compile(FALSE, m)
    /\ memo' = IF ~memo.seen
               THEN [memo EXCEPT !.seen = TRUE, !.manifest = m, !.cres = cres']
               ELSE IF m = memo.manifest THEN [memo EXCEPT !.again = TRUE]
               ELSE [memo EXCEPT !.other = TRUE, !.again = FALSE]
    /\ UNCHANGED <<calls, proposal, kernel, kres, ores, attached, store, now, verifier>>

NextCompile == \E m \in CompileManifests : CompileNext(m)

SpecCompile == InitCompile /\ [][NextCompile]_vars

-----------------------------------------------------------------------------
(* SpecConstruct: manifest is the raw data of a manifest document;          *)
(* DomainManifest(data) is constructed from it (KernelEngine.load_manifest  *)
(* does so) and, when that gave an object, the object is compiled without  *)
(* verification.  memo holds what the construction gave.                   *)

\* DomainManifest(data): pydantic checks the fields (the operator is one
\* of the enumeration) and runs validate_entities, whose ValueError pydantic
\* raises as its own ValidationError; nothing else is validated
DomainManifestNew(data) ==
    IF /\ \A i \in 1..Len(data.constraints) : data.constraints[i].operator \in Operators
       /\ ValidateEntities(data)
    THEN [outcome |-> "DomainManifest", object |-> {data}]
    ELSE [outcome |-> "pydantic.ValidationError", object |-> {}]

\* nothing constructed yet
NotConstructed == [outcome |-> "NONE", object |-> {}]

\* raw documents of up to two rules over some of the entities; the rules
\* may read an entity that is not declared and name ids of no rule
RawManifests ==
    LET rule(id) == {Constraint(id, e, "GT", <<1>>, "WARNING", 1, cond, <<>>) :
                        e \in EntitySet, cond \in CondSets}
    IN  {[domain_id |-> "D", entities |-> es, constraints |-> cs] :
            es \in {Entities, <<Entities[1]>>, <<>>},
            cs \in {<<>>} \cup {<<a>> : a \in rule(Ids[1])}
                   \cup {<<a, b>> : a \in rule(Ids[1]), b \in rule(Ids[2])}}

InitConstruct ==
    /\ manifest \in RawManifests
    /\ proposal = <<>>
    /\ kernel = NewKernel(CompileArrays(Manifest(<<>>)))
    /\ kres = NoResult
    /\ ores = NoResult
    /\ attached = FALSE
    /\ store = EmptyStore
    /\ now = 0
    /\ verifier = NewVerifier
    /\ cres = NoCompile
    /\ memo = NotConstructed
    /\ calls = NoCalls

\* DomainManifest(data)
Construct ==
    /\ memo = NotConstructed
    /\ memo' = DomainManifestNew(manifest)
    /\ UNCHANGED <<calls, manifest, proposal, kernel, kres, ores, attached, store, now, verifier, cres>>

\* LNTCompiler(verify=False).compile(the constructed manifest)
CompileConstructed ==
    /\ cres = NoCompile
    /\ \E m \in memo.object : cres' = Compile(FALSE, m)
    /\ UNCHANGED <<calls, manifest, proposal, kernel, kres, ores, attached, store, now, verifier, memo>>

NextConstruct ==
    \/ Construct
    \/ CompileConstructed

SpecConstruct == InitConstruct /\ [][NextConstruct]_vars

-----------------------------------------------------------------------------
(* Vocabulary of the properties *)

Evaluated(res) == res.status # "NONE"

\* the constraint of the manifest with this id
ById(id) == manifest.constraints[IdToIdx(manifest.constraints, id)]

\* the summed weight of the constraints whose index is in S
WeightOf(S) ==
    SumSeq([i \in Idx(manifest) |-> IF i \in S THEN manifest.constraints[i].weight ELSE 0])

\* the indices of the constraints reported in a list of ids
Reported(ids) == {i \in Idx(manifest) : manifest.constraints[i].id \in Range(ids)}

\* s is 100 * (1 - deducted / total), not below 0, to the nearest hundredth
\* (100 when total is 0)
IsScore(s, deducted, total) ==
    IF total = 0 THEN s = 10000
    ELSE LET exact == Max(0, 10000 * (total - deducted))
         IN  2 * (s * total - exact) <= total /\ 2 * (exact - s * total) <= total

\* the bounds check of constraint i on the state vector of the last
\* vectorized evaluation
CheckFailed(i) == GetViolationMask(kernel, kernel.state_vec)[i]

\* constraint j lists constraint i in conditional_on
DependsOn(j, i) == manifest.constraints[i].id \in manifest.constraints[j].conditional_on

\* the constraints with a direct prerequisite whose check failed
FailedPrerequisite == {j \in Idx(manifest) : \E i \in Idx(manifest) : DependsOn(j, i) /\ CheckFailed(i)}

UnitWeights == \A i \in Idx(manifest) : manifest.constraints[i].weight = 1

-----------------------------------------------------------------------------
(* C1: in OptimizedKernel.trace_evaluate every constraint with a direct    *)
(* prerequisite whose own check failed is listed in pruned, is in neither  *)
(* violations nor passes, and its weight is left out of the denominator of *)
(* the score.                                                              *)
C1_FailedPrerequisitePrunes ==
    Evaluated(ores) =>
        /\ \A j \in FailedPrerequisite :
            LET id == manifest.constraints[j].id
            IN  /\ id \in Range(ores.pruned)
                /\ id \notin Range(ores.violations)
                /\ id \notin Range(ores.passes)
        /\ IsScore(ores.score, WeightOf(Reported(ores.violations)),
                   WeightOf(Idx(manifest) \ FailedPrerequisite))

\* A fails, B depends on A, C is independent and passes, unit weights:
\* B pruned, score 50.0
C1_Witness ==
    /\ Len(manifest.constraints) = 3
    /\ UnitWeights
    /\ manifest.constraints[1].conditional_on = {}
    /\ manifest.constraints[2].conditional_on = {Ids[1]}
    /\ manifest.constraints[3].conditional_on = {}
    /\ Evaluated(ores)
    /\ ores.violations = <<Ids[1]>>
    /\ ores.pruned = <<Ids[2]>>
    /\ ores.passes = <<Ids[3]>>
    /\ ores.score = 5000

(* C2: for a manifest with no conditional_on and no temporal_window the    *)
(* two evaluators return the same status, the same set of violated ids and *)
(* the same score for the same proposal.                                   *)
C2_EvaluatorsAgree ==
    (/\ Evaluated(kres)
     /\ Evaluated(ores)
     /\ \A i \in Idx(manifest) :
            /\ manifest.constraints[i].conditional_on = {}
            /\ manifest.constraints[i].temporal_window = <<>>)
    => /\ kres.status = ores.status
       /\ Range(kres.violations) = Range(ores.violations)
       /\ kres.score = ores.score

(* C3: evaluating a proposal again on the same OptimizedKernel instance,   *)
(* with any other proposals evaluated in between, gives the violations,    *)
(* passes and score of the earlier evaluation.                             *)
C3_SameProposalSameResult ==
    (memo.seen /\ proposal = memo.proposal) =>
        /\ ores.violations = memo.res.violations
        /\ ores.passes = memo.res.passes
        /\ ores.score = memo.res.score

\* the remembered proposal lacks an entity that a request in between
\* carried, and has just been evaluated again
C3_Witness ==
    /\ memo.seen
    /\ memo.other
    /\ proposal = memo.proposal
    /\ DOMAIN proposal # EntitySet
    /\ ores.violations # <<>>

(* C7: with a state buffer attached, KernelEngine.trace_evaluate judges a  *)
(* constraint that has a temporal_window on the trailing average over that *)
(* window taken after the current proposal value has been pushed: the      *)
(* entries of the window before the request, plus the current value once   *)
(* for every constraint on that entity evaluated so far in this request.   *)

\* the operator of c holds of the rational num / den
Holds(c, num, den) ==
    IF c.operator = "GT" THEN num > c.value[1] * den
    ELSE IF c.operator = "LT" THEN num < c.value[1] * den
    ELSE IF c.operator = "GTE" THEN num >= c.value[1] * den
    ELSE IF c.operator = "LTE" THEN num <= c.value[1] * den
    ELSE IF c.operator = "EQ" THEN num = c.value[1] * den
    ELSE IF c.operator = "RANGE" THEN c.value[1] * den <= num /\ num <= c.value[2] * den
    ELSE IF c.operator = "IN" THEN \E x \in Range(c.value) : num = x * den
    ELSE TRUE

\* the window in seconds of "1s" and "1h"
Seconds(win) == IF win = <<1, "s">> THEN 1 ELSE 3600

\* constraint i holds of the trailing average of its window, taken over the
\* store st before the request and the copies of the value of proposal p
\* pushed until constraint i is judged, res being the result
HoldsOnAverage(i, st, p, res) ==
    LET c == manifest.constraints[i]
        h == st[c.entity]
        inWin == {x \in 1..Len(h) : h[x].ts >= now - Seconds(c.temporal_window)}
        done == Range(res.violations) \cup Range(res.passes)
        copies == IF c.entity \in DOMAIN p
                  THEN Cardinality({j \in 1..i : /\ manifest.constraints[j].entity = c.entity
                                                 /\ manifest.constraints[j].id \in done})
                  ELSE 0
        sum == SumSeq([x \in 1..Len(h) |-> IF x \in inWin THEN h[x].value ELSE 0])
               + (IF copies > 0 THEN copies * p[c.entity] ELSE 0)
        cnt == Cardinality(inWin) + copies
    IN  IF cnt = 0 THEN Holds(c, 0, 1) ELSE Holds(c, sum, cnt)

C7_Post(st, p, res) ==
    \A i \in Idx(manifest) :
        LET c == manifest.constraints[i]
        IN  (c.temporal_window # <<>> /\ c.id \in Range(res.violations) \cup Range(res.passes))
            => (c.id \in Range(res.passes) <=> HoldsOnAverage(i, st, p, res))

C7_JudgedOnTrailingAverage ==
    [][(\E p \in ReuseProposals : KernelRequest(p)) => C7_Post(store, proposal', kres')]_vars

\* history 0, 0, then a request with value MaxVal against GT 1 over 1h: the
\* raw value passes GT 1, the average MaxVal / 3 does not
C7_Witness ==
    /\ Len(manifest.constraints) = 1
    /\ manifest.constraints[1].operator = "GT"
    /\ manifest.constraints[1].temporal_window = <<1, "h">>
    /\ proposal = (Entities[1] :> MaxVal)
    /\ [x \in 1..Len(store[Entities[1]]) |-> store[Entities[1]][x].value] = <<0, 0, MaxVal>>
    /\ kres.status = "REJECTED"
    /\ kres.violations = <<Ids[1]>>

(* C4: in both evaluators the score is max(0, 100 * (1 - deducted/total))  *)
(* to 2 decimals, deducted being the summed weight of the reported         *)
(* violations and total the evaluator's denominator (all constraints for   *)
(* KernelEngine, the constraints not pruned for OptimizedKernel), and 100  *)
(* when total is 0; it lies in [0, 100]; a manifest without constraints    *)
(* gives 100.0 and CERTIFIED.                                              *)
C4_ScoreFormula ==
    /\ Evaluated(kres) =>
        /\ IsScore(kres.score, WeightOf(Reported(kres.violations)), WeightOf(Idx(manifest)))
        /\ kres.score \in 0..10000
        /\ manifest.constraints = <<>> => kres.score = 10000 /\ kres.status = "CERTIFIED"
    /\ Evaluated(ores) =>
        /\ IsScore(ores.score, WeightOf(Reported(ores.violations)),
                   WeightOf(Idx(manifest) \ Reported(ores.pruned)))
        /\ ores.score \in 0..10000
        /\ manifest.constraints = <<>> => ores.score = 10000 /\ ores.status = "CERTIFIED"

\* weights 1 and 2, the rule of weight 1 violated: 66.67 from both evaluators
C4_Witness ==
    /\ Evaluated(kres)
    /\ Evaluated(ores)
    /\ kres.score = 6667
    /\ ores.score = 6667
    /\ Len(kres.violations) = 1
    /\ WeightOf(Idx(manifest)) = 3

(* C5: trace_evaluate of either evaluator returns CERTIFIED when the       *)
(* violations list is empty and REJECTED otherwise, whatever the severity  *)
(* of the violated rules, and no other status.                             *)
C5_StatusFromViolations ==
    /\ Evaluated(kres) =>
        kres.status = (IF kres.violations = <<>> THEN "CERTIFIED" ELSE "REJECTED")
    /\ Evaluated(ores) =>
        ores.status = (IF ores.violations = <<>> THEN "CERTIFIED" ELSE "REJECTED")

(* C6: in OptimizedKernel.trace_evaluate a constraint all of whose direct  *)
(* prerequisites pass their checks is never pruned: it is in violations or *)
(* in passes according to its own check, and its weight counts in the      *)
(* denominator of the score.                                               *)
C6_PassedPrerequisitesKeep ==
    Evaluated(ores) =>
        LET kept == {j \in Idx(manifest) :
                        \A i \in Idx(manifest) : DependsOn(j, i) => ~CheckFailed(i)}
        IN  /\ \A j \in kept :
                LET id == manifest.constraints[j].id
                IN  /\ id \notin Range(ores.pruned)
                    /\ CheckFailed(j) => id \in Range(ores.violations)
                    /\ ~CheckFailed(j) => id \in Range(ores.passes)
            /\ IsScore(ores.score, WeightOf({j \in kept : CheckFailed(j)}), WeightOf(kept))

\* A passes, B depends on A and violates, C passes, unit weights: 66.67
C6_Witness ==
    /\ Len(manifest.constraints) = 3
    /\ UnitWeights
    /\ manifest.constraints[2].conditional_on = {Ids[1]}
    /\ Evaluated(ores)
    /\ ores.passes = <<Ids[1], Ids[3]>>
    /\ ores.violations = <<Ids[2]>>
    /\ ores.pruned = <<>>
    /\ ores.score = 6667

\* every method in the set has been called on the verifier
Called(methods) == methods \subseteq verifier.called

(* C8: for every manifest, cyclic, self-referential or unresolvable        *)
(* conditional_on included, when verify_consistency returns consistent,    *)
(* verify_satisfiable on the same manifest returns satisfiable with a      *)
(* witness assignment.                                                     *)
C8_ConsistentIsSatisfiable ==
    (Called({"verify_consistency", "verify_satisfiable"}) /\ verifier.consistent)
        => (verifier.satisfiable /\ verifier.example # {})

(* C9: detect_dead_code returns exactly the ids, in manifest order, of the *)
(* constraints whose own formula together with the formulas of their       *)
(* direct prerequisites has no solution, each rule judged apart from the   *)
(* rest of the manifest.                                                   *)

\* the constraints a rule is judged with: itself and the constraints its
\* conditional_on names
JudgedWith(j) ==
    {manifest.constraints[j]}
    \cup {ById(id) : id \in {pid \in manifest.constraints[j].conditional_on :
                                IdToIdx(manifest.constraints, pid) # 0}}

\* the values (in half units) of the typed variable the verifier keeps for
\* an entity: the integers when the entity's first rule is an IN
ValuesOf(e) ==
    IF e \in DOMAIN verifier.variables /\ verifier.variables[e] = "int"
    THEN {g \in Grid : g % 2 = 0} ELSE Grid

\* no values of the entities meet all of them
Unreachable(j) ==
    ~ \E val \in [EntitySet -> Grid] :
        /\ \A e \in EntitySet : val[e] \in ValuesOf(e)
        /\ \A g \in JudgedWith(j) : Holds(g, val[g.entity], 2)

C10_CompileRefusesContradiction ==
    (cres.outcome # "NONE" /\ Called({"verify_consistency"})) =>
        /\ ~verifier.consistent =>
                (cres.outcome = "ManifestContradictionError" /\ cres.compiled = {})
        /\ cres.outcome = "CompiledManifest" =>
                (verifier.consistent /\ cres.compiled = {CompileArrays(manifest)})

\* a GT 2 with a LT 1: the verifier answers contradictory, compile raises
C10_Witness ==
    /\ Called({"verify_consistency"})
    /\ verifier.explanation = "Manifest contains contradictory constraints"
    /\ cres.outcome = "ManifestContradictionError"
    /\ Len(manifest.constraints) = 2
    /\ manifest.constraints[1].operator = "GT"
    /\ manifest.constraints[2].operator = "LT"
    /\ manifest.constraints[2].conditional_on = {}

(* C11: when check() answers unknown (or times out) the outcome is         *)
(* inconclusive, neither consistent nor contradictory: verify_consistency  *)
(* does not report the manifest as contradictory, and compile with         *)
(* verification does not raise ManifestContradictionError for it.          *)
C11_UnknownIsInconclusive ==
    /\ (Called({"verify_consistency"}) /\ verifier.consistency_check = "unknown") =>
            /\ ~verifier.consistent
            /\ verifier.explanation # "Manifest contains contradictory constraints"
    /\ cres.consistency_check = "unknown" =>
            cres.outcome # "ManifestContradictionError"

(* C12: verify_consistency returns consistent exactly when some assignment *)
(* of entity values satisfies every unconditional constraint and, for each *)
(* constraint with conditional_on, the implication from its prerequisites  *)
(* to itself; otherwise it returns not consistent with the 'contradictory' *)
(* explanation.                                                            *)

\* the constraints that the conditional_on of constraint j names
PrerequisitesOf(j) ==
    {ById(id) : id \in {pid \in manifest.constraints[j].conditional_on :
                                IdToIdx(manifest.constraints, pid) # 0}}

\* the constraint holds of the rational num / den; NIN is "not one of"
Satisfies(c, num, den) ==
    IF c.operator = "NIN" THEN \A x \in Range(c.value) : num # x * den
    ELSE Holds(c, num, den)

\* some values of the entities meet every rule whose prerequisites they meet
Solvable ==
    \E val \in [EntitySet -> Grid] :
        /\ \A e \in EntitySet : val[e] \in ValuesOf(e)
        /\ \A j \in Idx(manifest) :
              (\A g \in PrerequisitesOf(j) : Satisfies(g, val[g.entity], 2))
                  => Satisfies(manifest.constraints[j], val[manifest.constraints[j].entity], 2)

C12_ConsistentIffSolvable ==
    Called({"verify_consistency"}) =>
        IF Solvable THEN verifier.consistent
        ELSE /\ ~verifier.consistent
             /\ verifier.explanation = "Manifest contains contradictory constraints"

Constructed == memo.outcome # "NONE"

(* C14: constructing a DomainManifest in which a constraint's entity is    *)
(* not in the entities list fails with ManifestValidationError and gives   *)
(* no manifest object; every constructed manifest has all its constraint   *)
(* entities declared.                                                      *)
C14_UndeclaredEntityRejected ==
    Constructed =>
        /\ ~ValidateEntities(manifest) =>
                (memo.outcome = "ManifestValidationError" /\ memo.object = {})
        /\ \A m \in memo.object : ValidateEntities(m)

\* every id in a conditional_on of m is the id of a constraint of m
ConditionalOnResolves(m) ==
    \A i \in 1..Len(m.constraints) :
        \A pid \in m.constraints[i].conditional_on : IdToIdx(m.constraints, pid) # 0

(* C15: constructing a DomainManifest in which a conditional_on holds an   *)
(* id that is not the id of a constraint of the same manifest fails with   *)
(* ManifestValidationError; every constructed manifest has all its         *)
(* conditional_on ids resolvable.                                          *)
C15_UnresolvableIdRejected ==
    Constructed =>
        /\ \A m \in memo.object : ConditionalOnResolves(m)
        /\ ~ConditionalOnResolves(manifest) =>
                (memo.outcome = "ManifestValidationError" /\ memo.object = {})

(* C16: proposal keys that are no entity of the manifest are accepted by   *)
(* both evaluators and change neither status, violations, passes nor       *)
(* score; KernelEngine reports exactly those keys in un_governed_signals.  *)

\* the proposal without the keys that are no entity of the manifest
Governed(p) == [e \in DOMAIN p \cap Range(manifest.entities) |-> p[e]]

\* two results with the same status, violations, passes and score
SameVerdict(r1, r2) ==
    /\ r1.status = r2.status
    /\ r1.violations = r2.violations
    /\ r1.passes = r2.passes
    /\ r1.score = r2.score

C16_UngovernedKeysIgnored ==
    /\ Evaluated(kres) =>
        /\ SameVerdict(kres, KernelTrace(manifest, Governed(proposal), attached, store, now).res)
        /\ kres.un_governed = DOMAIN proposal \ Range(manifest.entities)
    /\ Evaluated(ores) =>
        LET fresh == NewKernel(CompileArrays(manifest))
        IN  SameVerdict(ores, OptResult(fresh, UpdateState(fresh, Governed(proposal))))

\* the proposal carries the undeclared key with a value that would violate
\* the rule, and the declared entity with a value that passes it
C16_Witness ==
    /\ Evaluated(kres)
    /\ Evaluated(ores)
    /\ Range(manifest.entities) = {Entities[1]}
    /\ DOMAIN proposal = EntitySet
    /\ kres.un_governed = {Entities[2]}
    /\ Len(manifest.constraints) = 1
    /\ manifest.constraints[1].operator = "LT"
    /\ proposal[Entities[1]] = 0
    /\ proposal[Entities[2]] = MaxVal
    /\ kres.status = "CERTIFIED"
    /\ ores.status = "CERTIFIED"

(* C17: two trace_evaluate calls that run concurrently on one              *)
(* OptimizedKernel instance with different proposals each return what a    *)
(* solitary call with their own proposal returns.                          *)
C17_ConcurrentCallsIsolated ==
    \A t \in Threads :
        calls[t].pc = "done" =>
            LET fresh == NewKernel(CompileArrays(manifest))
            IN  calls[t].res = OptResult(fresh, UpdateState(fresh, calls[t].proposal))

-----------------------------------------------------------------------------
(* C18: get_window_data(entity, w) returns the values pushed for that      *)
(* entity whose timestamp is at least now - w, each of them once, in the   *)
(* order in which they were pushed, and no value pushed for another        *)
(* entity.                                                                 *)

\* the values of the pushes of log made for entity e at reading t - w or
\* later, in the order of the pushes
RECURSIVE PushedInWindow(_, _, _, _)
PushedInWindow(log, e, w, t) ==
    IF log = <<>> THEN <<>>
    ELSE (IF log[1].entity = e /\ log[1].ts >= t - w THEN <<log[1].value>> ELSE <<>>)
         \o PushedInWindow(Tail(log), e, w, t)

C18_WindowInPushOrder ==
    kres.status = "get_window_data" =>
        kres.result = PushedInWindow(SubSeq(memo.log, 1, kres.pushed),
                                     kres.entity, kres.window, kres.at)

(* C19: calculate_frequency(entity, w) is the number of entries of the     *)
(* window that get_window_data(entity, w) returns and calculate_average    *)
(* is their arithmetic mean; on an empty window they are 0 and 0.0; and    *)
(* what was pushed is in the store whether or not the store was closed and *)
(* opened again on its path in between.                                    *)
C19_WindowStatistics ==
    [][LET window == LmdbGetWindowData(store, kres'.entity, kres'.window, now)
       IN  /\ store' = memo'.db
           /\ (kres' # kres /\ kres'.status = "calculate_frequency") =>
                 kres'.result = Len(window)
           /\ (kres' # kres /\ kres'.status = "calculate_average") =>
                 IF window = <<>> THEN kres'.result = <<0, 1>>
                 ELSE /\ kres'.result[2] = Len(window)
                      /\ kres'.result[1] = SumSeq(window)]_vars

\* after the store was closed and opened again the average over the short
\* window is the later of two values pushed before
C19_Witness ==
    /\ kres.status = "calculate_average"
    /\ kres.reopened
    /\ kres.window = 1
    /\ kres.pushed = MaxHist
    /\ \A i \in 1..MaxHist : memo.log[i].entity = kres.entity
    /\ memo.log[1].ts < kres.at - 1
    /\ memo.log[MaxHist].ts >= kres.at - 1
    /\ kres.result = <<memo.log[MaxHist].value, 1>>

(* C20: the compiler gives the severity labels TOXIC, IMPOSSIBLE, FATAL    *)
(* and CRITICAL the class 2 and every other label the class 1, and the     *)
(* vectorized evaluator answers a proposal under a manifest as it answers  *)
(* it under the same manifest with these labels written as CRITICAL.       *)

CriticalAliases == {"TOXIC", "IMPOSSIBLE", "FATAL", "CRITICAL"}

\* m with every critical alias written as CRITICAL
AsCritical(m) ==
    [m EXCEPT !.constraints =
        [i \in DOMAIN @ |->
            IF @[i].severity \in CriticalAliases
            THEN [@[i] EXCEPT !.severity = "CRITICAL"] ELSE @[i]]]

C20_AliasesAreCritical ==
    /\ \A i \in Idx(manifest) :
          kernel.manifest.severities[i] =
              IF manifest.constraints[i].severity \in CriticalAliases THEN 2 ELSE 1
    /\ Evaluated(ores) =>
          LET critical == NewKernel(CompileArrays(AsCritical(manifest)))
          IN  SameVerdict(ores, OptResult(critical, UpdateState(critical, proposal)))


(* C21: in KernelEngine.trace_evaluate a constraint with conditional_on of *)
(* which some prerequisite has no pass recorded when the constraint is     *)
(* reached is in neither violations nor passes, and its weight is left out *)
(* of the deducted weight and of the total weight of the score.            *)

\* the constraints that the dependency gate of the interpreted evaluator
\* holds back, given the passes it reported: some id of conditional_on is
\* not the id of an earlier constraint that passed
GateClosed ==
    {j \in Idx(manifest) :
        \E pid \in manifest.constraints[j].conditional_on :
            ~\E i \in 1..(j - 1) :
                /\ manifest.constraints[i].id = pid
                /\ pid \in Range(kres.passes)}

C21_SkippedCountsNowhere ==
    Evaluated(kres) =>
        /\ \A j \in GateClosed :
              /\ manifest.constraints[j].id \notin Range(kres.violations)
              /\ manifest.constraints[j].id \notin Range(kres.passes)
        /\ IsScore(kres.score, WeightOf(Reported(kres.violations)),
                   WeightOf(Idx(manifest) \ GateClosed))


(* C22: for a constraint with one of the operators GT, LT, GTE, LTE, EQ    *)
(* and RANGE whose entity is in the proposal, the bounds check of          *)
(* OptimizedKernel fails exactly when the value does not meet the          *)
(* operator: GT and LT strictly, GTE and LTE with equality allowed, EQ on  *)
(* equality, RANGE within low and high, both included.                     *)
C22_BoundsCheckIsOperator ==
    Evaluated(ores) =>
        \A i \in Idx(manifest) :
            LET c == manifest.constraints[i]
            IN  (/\ c.operator \in {"GT", "LT", "GTE", "LTE", "EQ", "RANGE"}
                 /\ c.entity \in DOMAIN proposal)
                => (CheckFailed(i) <=> ~Holds(c, proposal[c.entity], 1))


(* C23: in KernelEngine.trace_evaluate, with no state buffer to resolve a  *)
(* value from, every constraint that the dependency gate lets through and  *)
(* whose entity is not in the proposal is reported as a violation, whatever*)
(* its operator; its weight is part of the deducted weight; and every      *)
(* constraint that lists it in conditional_on is reported nowhere.         *)

\* the constraints let through by the gate whose value is absent
AbsentValue ==
    {j \in Idx(manifest) \ GateClosed :
        /\ manifest.constraints[j].entity \notin DOMAIN proposal
        /\ ~(attached /\ manifest.constraints[j].temporal_window # <<>>)}

C23_AbsentValueViolates ==
    Evaluated(kres) =>
        /\ \A j \in AbsentValue :
              /\ manifest.constraints[j].id \in Range(kres.violations)
              /\ manifest.constraints[j].id \notin Range(kres.passes)
              /\ \A k \in Idx(manifest) :
                    DependsOn(k, j) =>
                        manifest.constraints[k].id
                            \notin Range(kres.violations) \cup Range(kres.passes)
        /\ AbsentValue \subseteq Reported(kres.violations)
        /\ IsScore(kres.score, WeightOf(Reported(kres.violations)), WeightOf(Idx(manifest)))

\* A reads an entity the proposal lacks, B depends on A and reads an entity
\* the proposal has with a passing value: A violated, B reported nowhere
C23_Witness ==
    /\ Evaluated(kres)
    /\ Len(manifest.constraints) = 2
    /\ manifest.constraints[1].conditional_on = {}
    /\ manifest.constraints[2].conditional_on = {Ids[1]}
    /\ DOMAIN proposal = {Entities[2]}
    /\ proposal[Entities[2]] = MaxVal
    /\ 1 \in AbsentValue
    /\ kres.violations = <<Ids[1]>>
    /\ kres.passes = <<>>
    /\ kres.status = "REJECTED"


(* C24: in OptimizedKernel.trace_evaluate every constraint that is not     *)
(* pruned and whose entity is not in the proposal is reported as a         *)
(* violation, whatever its operator and threshold.                         *)
C24_MissingEntityViolates ==
    Evaluated(ores) =>
        \A i \in Idx(manifest) :
            (/\ manifest.constraints[i].entity \notin DOMAIN proposal
             /\ manifest.constraints[i].id \notin Range(ores.pruned))
            => manifest.constraints[i].id \in Range(ores.violations)


(* C25: when a proposal carries for an entity a value of a type that the   *)
(* operator of a constraint on that entity cannot compare, KernelEngine    *)
(* returns a result in which that constraint is a violation, and every     *)
(* other constraint that the dependency gate lets through is reported, as  *)
(* a violation or as a pass.                                               *)
C25_TypeMismatchIsViolation ==
    Evaluated(kres) =>
        /\ \A i \in Idx(manifest) \ GateClosed :
              LET c == manifest.constraints[i]
              IN  (/\ c.entity \in DOMAIN proposal
                   /\ proposal[c.entity] = Text
                   /\ c.operator \in {ov[1] : ov \in OrderOpValues})
                  => c.id \in Range(kres.violations)
        /\ \A i \in Idx(manifest) \ GateClosed :
              manifest.constraints[i].id \in Range(kres.violations) \cup Range(kres.passes)


(* C26: every push adds an entry and leaves the earlier ones: the          *)
(* frequency of an entity over a window that covers all its pushes is the  *)
(* number of these pushes.                                                 *)
C26_PushAddsOneEntry ==
    (/\ kres.status = "calculate_frequency"
     /\ \A i \in 1..kres.pushed : memo.log[i].ts >= kres.at - kres.window)
    => kres.result =
          Cardinality({i \in 1..kres.pushed : memo.log[i].entity = kres.entity})


(* C27: when OptimizedKernel reports a rule as a violation, every rule     *)
(* that depends on it through a chain of conditional_on of any length is   *)
(* pruned: it is reported neither as a violation nor as a pass.  (A rule   *)
(* on a cycle through itself is not asked to be pruned by its own failure.)*)

\* constraint j reaches constraint i through at most n steps of conditional_on
RECURSIVE DependsWithin(_, _, _)
DependsWithin(j, i, n) ==
    /\ n > 0
    /\ \/ DependsOn(j, i)
       \/ \E k \in Idx(manifest) : DependsOn(j, k) /\ DependsWithin(k, i, n - 1)

C27_PruningIsTransitive ==
    Evaluated(ores) =>
        \A i \in Reported(ores.violations) :
            \A j \in Idx(manifest) :
                (j # i /\ DependsWithin(j, i, Len(manifest.constraints))) =>
                    /\ manifest.constraints[j].id \in Range(ores.pruned)
                    /\ manifest.constraints[j].id
                           \notin Range(ores.violations) \cup Range(ores.passes)


(* C28: in every OptimizedKernel result the ids listed in violations,      *)
(* passes and pruned are pairwise disjoint and every constraint of the     *)
(* manifest is listed exactly once; in every KernelEngine result           *)
(* violations and passes are disjoint, no id is listed twice, and every    *)
(* constraint listed in neither was held back by the dependency gate.      *)

\* no element occurs twice in the sequence
NoRepeats(ids) == Cardinality(Range(ids)) = Len(ids)

AllIds == {manifest.constraints[i].id : i \in Idx(manifest)}

C28_ResultPartitionsConstraints ==
    /\ Evaluated(ores) =>
          /\ Range(ores.violations) \cap Range(ores.passes) = {}
          /\ Range(ores.violations) \cap Range(ores.pruned) = {}
          /\ Range(ores.passes) \cap Range(ores.pruned) = {}
          /\ Range(ores.violations) \cup Range(ores.passes) \cup Range(ores.pruned) = AllIds
          /\ NoRepeats(ores.violations \o ores.passes \o ores.pruned)
    /\ Evaluated(kres) =>
          /\ Range(kres.violations) \cap Range(kres.passes) = {}
          /\ NoRepeats(kres.violations \o kres.passes)
          /\ Range(kres.violations) \cup Range(kres.passes) \subseteq AllIds
          /\ \A j \in Idx(manifest) :
                manifest.constraints[j].id \notin Range(kres.violations) \cup Range(kres.passes)
                    => j \in GateClosed

\* three rules, each list of the vectorized result non-empty, and a rule
\* that the interpreted evaluator held back
C28_Witness ==
    /\ Evaluated(ores)
    /\ Evaluated(kres)
    /\ Len(manifest.constraints) = 3
    /\ ores.violations # <<>>
    /\ ores.passes # <<>>
    /\ ores.pruned # <<>>
    /\ kres.passes # <<>>
    /\ Len(kres.violations) + Len(kres.passes) < Len(manifest.constraints)


(* C29: one KernelEngine.trace_evaluate call with a state buffer attached  *)
(* adds to the store, for every entity, as many entries as there are       *)
(* constraints on that entity that the dependency gate lets through, when  *)
(* the proposal has a numeric value for the entity, and none otherwise:    *)
(* none for an entity the proposal lacks, for a key that is no entity of   *)
(* the manifest, or for an entity read by skipped constraints only.        *)

\* the keys of the database db that belong to entity e
KeysOf(db, e) == {k \in DOMAIN db : StartsWith(k, KeyPrefix(e))}

\* the constraints on entity e that the result res reports
EvaluatedOn(e, res) ==
    {i \in Idx(manifest) :
        /\ manifest.constraints[i].entity = e
        /\ manifest.constraints[i].id \in Range(res.violations) \cup Range(res.passes)}

C29_OneEntryPerEvaluatedConstraint ==
    [][(kres = NoResult /\ kres' # NoResult) =>
          \A e \in EntitySet :
              Cardinality(KeysOf(store', e)) =
                  Cardinality(KeysOf(store, e))
                  + (IF e \in DOMAIN proposal' /\ proposal'[e] # Text
                     THEN Cardinality(EvaluatedOn(e, kres')) ELSE 0)]_vars


(* C30: in KernelEngine.trace_evaluate a constraint whose conditional_on   *)
(* names the id of a later constraint, its own id, or the id of no         *)
(* constraint of the manifest is reported neither as a violation nor as a  *)
(* pass, whatever the proposal; and so is every constraint on a cycle of   *)
(* conditional_on.                                                         *)

\* some id of conditional_on cannot have a result when constraint j is
\* reached
NamesNoEarlier(j) ==
    \E pid \in manifest.constraints[j].conditional_on :
        \A i \in Idx(manifest) : manifest.constraints[i].id = pid => i >= j

OnCycle(j) == DependsWithin(j, j, Len(manifest.constraints))

C30_UnreachablePrerequisiteSkips ==
    Evaluated(kres) =>
        \A j \in Idx(manifest) :
            (NamesNoEarlier(j) \/ OnCycle(j)) =>
                manifest.constraints[j].id
                    \notin Range(kres.violations) \cup Range(kres.passes)

\* A and B name each other, C names no constraint of the manifest; the
\* proposal has passing values for both entities: nothing is reported and
\* the request is certified
C30_Witness ==
    /\ Evaluated(kres)
    /\ Len(manifest.constraints) = 3
    /\ manifest.constraints[1].conditional_on = {Ids[2]}
    /\ manifest.constraints[2].conditional_on = {Ids[1]}
    /\ manifest.constraints[3].conditional_on = {NoId}
    /\ OnCycle(1) /\ OnCycle(2) /\ ~OnCycle(3)
    /\ \A e \in EntitySet : e \in DOMAIN proposal /\ proposal[e] = MaxVal
    /\ kres.violations = <<>>
    /\ kres.passes = <<>>
    /\ kres.status = "CERTIFIED"

=============================================================================
